---- MODULE Spec2Model ----
(***************************************************************************)
(* Verification model of the opcda client (Go): group event subscription  *)
(* and dispatch, teardown, remote-first mutators and the item collection. *)
(*                                                                         *)
(* The module holds several specifications over one set of variables:      *)
(*   DispatchSpec   OPCGroup: Register*, advise, loop, fire* on a group     *)
(*                  that is not released                                   *)
(*   TeardownSpec   OPCGroup: the same with Release                         *)
(*   ConcSpec       OPCGroup: Register* called from concurrent threads      *)
(*   ServerSpec     OPCServer: RegisterServerShutDown, Disconnect           *)
(*   MutSpec        OPCGroup / OPCItem remote-first mutators                *)
(*   ItemsSpec      OPCItems: AddItems, Validate                            *)
(*   RemoveSpec     OPCItems: AddItems, Remove                              *)
(*   BatchSpec      OPCItems: SetActive, SetClientHandles, SetDataTypes     *)
(*   SyncSpec       OPCGroup: SyncRead, SyncWrite, AsyncWrite               *)
(*   ReadSpec       OPCItem: Read, Write from concurrent threads            *)
(*   ClsIDSpec      Connect: getClsID                                       *)
(*   NewGroupSpec   NewOPCGroup                                             *)
(*   NilSpec        public methods on nil and zero-value receivers         *)
(*   OrderSpec      OPCGroup.Release, OPCServer.Disconnect: release order   *)
(*   EventSpec      fireDataChange, fireReadComplete, fireWriteComplete     *)
(*   ShutConcSpec   OPCServer: RegisterServerShutDown from concurrent       *)
(*                  threads                                                *)
(*   MintSpec       OPCItems: client handles of AddItems beside Validate    *)
(*   LockSpec       OPCItems: the lock of AddItems, Remove and the readers  *)
(*   RaceSpec       OPCGroup: Release beside a Register* call               *)
(*   LifeSpec       OPCGroup: Register* and Release without server events   *)
(*   AddFailSpec    OPCItems.AddItems with failing batch calls              *)
(*   BrowseSpec     OPCBrowser: MoveUp, MoveDown, MoveToRoot, MoveTo        *)
(* Each specification leaves the variables of the others at their idle     *)
(* value.                                                                  *)
(***************************************************************************)
EXTENDS Integers, Sequences, FiniteSets, TLC

\* ------------------------------------------------------------------ bounds
MaxAdvise == 2      \* advise attempts that reach the remote object
MaxEvents == 2      \* raw events the server delivers
MaxRelease == 2     \* calls of OPCGroup.Release
MaxRegister == 3    \* calls of Register*
SubCap == 1         \* capacity K of every subscriber queue
NumThreads == 2     \* application threads of ConcSpec
MaxShutAdvise == 2  \* RegisterServerShutDown attempts that reach the remote object
MaxShutRegister == 3 \* calls of RegisterServerShutDown
MaxDisconnect == 2  \* calls of OPCServer.Disconnect
MaxTags == 2        \* tags of one AddItems call
MaxItemID == 3      \* client handles OPCItems hands out
MaxHandles == 2     \* server handles of one SyncRead, SyncWrite or batch mutator call
MaxBatch == 1       \* calls of SetActive, SetClientHandles, SetDataTypes
MaxReads == 3        \* remote reads of one item
MaxBranches == 2    \* branches of one MoveTo call

VARIABLES
    g,      \* one OPCGroup, its dispatch goroutines and its callers
    chan,   \* the subscriber queues (buffered channels of capacity SubCap)
    srv,    \* one OPCServer (Session) and its callers; in BrowseSpec one OPCBrowser
    mut,    \* a group and an item under the remote-first mutators
    its,    \* one OPCItems collection
    io,     \* synchronous I/O of a group and of one item
    conn    \* one Connect call

vars == <<g, chan, srv, mut, its, io, conn>>
\* What the actions of one component leave alone.
notGroup == <<srv, mut, its, io, conn>>
notServer == <<g, chan, mut, its, io, conn>>
notMut == <<g, chan, srv, its, io, conn>>
notItems == <<g, chan, srv, mut, io, conn>>
notIO == <<g, chan, srv, mut, its, conn>>
notConn == <<g, chan, srv, mut, its, io>>

Kinds == {"data", "read", "write", "cancel"}
Attempts == 1..MaxAdvise
Threads == 1..NumThreads
\* The subscriber queues an application owns; a Go channel has one element type,
\* so each queue can be registered for one kind only.
Chans == {"d1", "d2", "r1", "w1", "c1", "c2"}
ChanKind(c) ==
    CASE c \in {"d1", "d2"} -> "data"
      [] c = "r1" -> "read"
      [] c = "w1" -> "write"
      [] OTHER -> "cancel"
\* The interfaces NewOPCGroup acquired: comGroupProvider's three and the item
\* collection's item-management interface.
GroupRefs == {"groupStateMgt", "syncIO", "asyncIO2", "itemMgt"}

\* One advise attempt: the references it acquired and released, its Advise
\* (advCall: called, adv: succeeded) and Unadvise, the dispatch goroutine it started (pc, cancelled, cancelCalls and
\* the fan-out in progress: ev, snap, idx) and its four internal queues (raw).
NoAtt == [conAcq |-> 0, ptAcq |-> 0, conRel |-> 0, ptRel |-> 0,
          advCall |-> 0, adv |-> 0, unadv |-> 0,
          pc |-> "none", cancelled |-> FALSE, cancelCalls |-> 0,
          ev |-> 0, idx |-> 0, snap |-> <<>>,
          raw |-> [k \in Kinds |-> <<>>]]
IdleThread == [pc |-> "idle", ch |-> "d1", n |-> 0, seen |-> <<>>]

\* The group NewOPCGroup returns, driven by the threads T.
\*   event, cancel, point, container, cookie: the fields of that name; 0 is nil,
\*     n the object made by advise attempt n
\*   lists: dataChangeList, readCompleteList, writeCompleteList, cancelCompleteList
\*   callbackLock: 0 is free, t the thread holding it
\*   rel: Release calls issued on the group's own interfaces
OPCGroup(T) ==
    [event |-> 0, cancel |-> 0, point |-> 0, container |-> 0, cookie |-> 0,
     lists |-> [k \in Kinds |-> <<>>],
     callbackLock |-> 0,
     att |-> [n \in Attempts |-> NoAtt],
     nAtt |-> 0,
     thr |-> [t \in T |-> IdleThread],
     rel |-> [r \in GroupRefs |-> 0],
     evSeq |-> [k \in Kinds |-> 0],
     nRelease |-> 0,
     nRegister |-> 0]

NoChans == [c \in Chans |-> <<>>]

\* The idle value of a component a specification does not use.
Idle == [idle |-> TRUE]
OthersIdleG == srv = Idle /\ mut = Idle /\ its = Idle /\ io = Idle /\ conn = Idle

\* --------------------------------------------------- Register* and advise
InternalCap == 100  \* capacity of each internal queue made by advise

\* The remote part of advise: QueryInterface for the container, FindConnectionPoint,
\* Advise. The result is what the attempt acquired and released when it returns:
\* the deferred function releases the container on every error, the point is
\* released on none.
adviseRemote(outcome) ==
    CASE outcome = "qiFail" -> NoAtt
      [] outcome = "findFail" -> [NoAtt EXCEPT !.conAcq = 1, !.conRel = 1]
      [] outcome = "adviseFail" ->
            [NoAtt EXCEPT !.conAcq = 1, !.conRel = 1, !.ptAcq = 1, !.advCall = 1]
      [] OTHER -> [NoAtt EXCEPT !.conAcq = 1, !.ptAcq = 1, !.advCall = 1, !.adv = 1]

AdviseOutcomes == {"qiFail", "findFail", "adviseFail", "ok"}

\* advise without its guard: every registration subscribes again.
alreadyAdvisedNoGuard == FALSE

\* The guard of advise, read with callbackLock held.
alreadyAdvised == g.event # 0

\* Register*(ch) up to the end of advise's remote calls. advise locks
\* callbackLock, returns nil at once when g.event is set, and otherwise makes the
\* remote calls; on an error it unlocks and Register* returns the error.
Register(t, c, outcome) ==
    /\ g.thr[t].pc = "idle"
    /\ g.nRegister < MaxRegister
    /\ g.callbackLock = 0
    /\ IF alreadyAdvised
       THEN g' = [g EXCEPT !.nRegister = @ + 1,
                           !.thr[t] = [IdleThread EXCEPT !.pc = "append", !.ch = c]]
       ELSE /\ g.nAtt < MaxAdvise
            /\ LET n == g.nAtt + 1 IN
               IF outcome = "ok"
               THEN g' = [g EXCEPT !.nRegister = @ + 1, !.nAtt = n,
                                   !.att[n] = adviseRemote(outcome),
                                   !.callbackLock = t,
                                   !.thr[t] = [IdleThread EXCEPT !.pc = "advised",
                                                                 !.ch = c, !.n = n]]
               ELSE g' = [g EXCEPT !.nRegister = @ + 1, !.nAtt = n,
                                   !.att[n] = adviseRemote(outcome)]
    /\ UNCHANGED <<chan, notGroup>>

RegisterDataChange(t, c, outcome) == ChanKind(c) = "data" /\ Register(t, c, outcome)
RegisterReadComplete(t, c, outcome) == ChanKind(c) = "read" /\ Register(t, c, outcome)
RegisterWriteComplete(t, c, outcome) == ChanKind(c) = "write" /\ Register(t, c, outcome)
RegisterCancelComplete(t, c, outcome) == ChanKind(c) = "cancel" /\ Register(t, c, outcome)

\* An advise that cancels the context it has just made, as a deferred cancel
\* would.
AdviseFinishCancelling(t) ==
    /\ g.thr[t].pc = "advised"
    /\ LET n == g.thr[t].n IN
       g' = [g EXCEPT !.cancel = n, !.att[n].pc = "select",
                      !.att[n].cancelled = TRUE,
                      !.container = n, !.point = n, !.event = n, !.cookie = n,
                      !.callbackLock = 0,
                      !.thr[t].pc = "append"]
    /\ UNCHANGED <<chan, notGroup>>

\* The tail of a successful advise: the context and its cancel function, the
\* dispatch goroutine, then the group's fields; the deferred Unlock.
AdviseFinish(t) ==
    /\ g.thr[t].pc = "advised"
    /\ LET n == g.thr[t].n IN
       g' = [g EXCEPT !.cancel = n, !.att[n].pc = "select",
                      !.container = n, !.point = n, !.event = n, !.cookie = n,
                      !.callbackLock = 0,
                      !.thr[t].pc = "append"]
    /\ UNCHANGED <<chan, notGroup>>

\* g.xList = append(g.xList, ch), made without callbackLock: the read of the
\* list and the write of the extended list are two steps.
AppendRead(t) ==
    /\ g.thr[t].pc = "append"
    /\ g' = [g EXCEPT !.thr[t].pc = "appendW",
                      !.thr[t].seen = g.lists[ChanKind(g.thr[t].ch)]]
    /\ UNCHANGED <<chan, notGroup>>

AppendWrite(t) ==
    /\ g.thr[t].pc = "appendW"
    /\ g' = [g EXCEPT !.lists[ChanKind(g.thr[t].ch)] = Append(g.thr[t].seen, g.thr[t].ch),
                      !.thr[t] = IdleThread]
    /\ UNCHANGED <<chan, notGroup>>

\* ------------------------------------------------------------------ Release
\* if g.event != nil { Unadvise; point.Release; container.Release; g.event = nil }
ReleaseUnadvise(t) ==
    /\ g.thr[t].pc = "idle"
    /\ g.nRelease < MaxRelease
    /\ IF g.event # 0
       THEN g' = [g EXCEPT
                    !.nRelease = @ + 1,
                    !.att = [n \in Attempts |->
                               [g.att[n] EXCEPT
                                  !.unadv = @ + (IF n = g.point /\ n = g.cookie THEN 1 ELSE 0),
                                  !.ptRel = @ + (IF n = g.point THEN 1 ELSE 0),
                                  !.conRel = @ + (IF n = g.container THEN 1 ELSE 0)]],
                    !.event = 0,
                    !.thr[t].pc = "rel2"]
       ELSE g' = [g EXCEPT !.nRelease = @ + 1, !.thr[t].pc = "rel2"]
    /\ UNCHANGED <<chan, notGroup>>

\* if g.cancel != nil { g.cancel() }
ReleaseCancel(t) ==
    /\ g.thr[t].pc = "rel2"
    /\ IF g.cancel # 0
       THEN g' = [g EXCEPT !.att[g.cancel].cancelled = TRUE,
                           !.att[g.cancel].cancelCalls = @ + 1,
                           !.thr[t].pc = "rel3"]
       ELSE g' = [g EXCEPT !.thr[t].pc = "rel3"]
    /\ UNCHANGED <<chan, notGroup>>

\* g.items.Release() (every Item, then the item-management interface) and
\* g.groupProvider.Release() (groupStateMgt, syncIO, asyncIO2): none of the
\* fields is cleared, so each call issues the releases again.
releaseOwned(r) == [x \in GroupRefs |-> r[x] + 1]

ReleaseProviders(t) ==
    /\ g.thr[t].pc = "rel3"
    /\ g' = [g EXCEPT !.rel = releaseOwned(g.rel), !.thr[t] = IdleThread]
    /\ UNCHANGED <<chan, notGroup>>

\* ------------------------------------------------------ raw event source
\* The receiver advise wired to the four internal queues: between Advise and
\* Unadvise the server calls it back, and each callback queues one raw event.
\* Events of one kind are numbered in the order the server produces them.
TotalEvents == g.evSeq["data"] + g.evSeq["read"] + g.evSeq["write"] + g.evSeq["cancel"]

RawEvent(n, k) ==
    /\ g.att[n].adv = 1 /\ g.att[n].unadv = 0
    /\ TotalEvents < MaxEvents
    /\ Len(g.att[n].raw[k]) < InternalCap
    /\ g' = [g EXCEPT !.evSeq[k] = @ + 1,
                      !.att[n].raw[k] = Append(@, g.evSeq[k] + 1)]
    /\ UNCHANGED <<chan, notGroup>>

\* ------------------------------------------------------------ dispatch loop
Full(chs, c) == Len(chs[c]) >= SubCap

\* select { case backData <- data: default: } over the list, in order: a queue
\* with room takes the event, a full queue is skipped.
RECURSIVE trySendAll(_, _, _)
trySendAll(chs, list, e) ==
    IF list = <<>> THEN chs
    ELSE LET c == Head(list) IN
         IF Full(chs, c)
         THEN trySendAll(chs, Tail(list), e)
         ELSE trySendAll([chs EXCEPT ![c] = Append(@, e)], Tail(list), e)

\* backData <- data over the list, in order, from position i: the send waits
\* while the queue is full. The result stops at the first position whose queue
\* is full (idx), or past the end of the list.
RECURSIVE sendAll(_, _, _, _)
sendAll(chs, list, i, e) ==
    IF i > Len(list) THEN [ch |-> chs, idx |-> i]
    ELSE LET c == list[i] IN
         IF Full(chs, c)
         THEN [ch |-> chs, idx |-> i]
         ELSE sendAll([chs EXCEPT ![c] = Append(@, e)], list, i + 1, e)

\* case <-ctx.Done(): return
LoopReturn(n) ==
    /\ g.att[n].pc = "select"
    /\ g.att[n].cancelled
    /\ g' = [g EXCEPT !.att[n].pc = "done"]
    /\ UNCHANGED <<chan, notGroup>>

\* One of the three fan-outs that use a non-blocking send.
fireNonBlocking(n, k) ==
    /\ g.att[n].pc = "select"
    /\ g.att[n].raw[k] # <<>>
    /\ chan' = trySendAll(chan, g.lists[k], Head(g.att[n].raw[k]))
    /\ g' = [g EXCEPT !.att[n].raw[k] = Tail(@)]
    /\ UNCHANGED notGroup

\* case cbData := <-dataChangeCB: g.fireDataChange(cbData)
fireDataChange(n) == fireNonBlocking(n, "data")
\* case cbData := <-readCB: g.fireReadComplete(cbData)
fireReadComplete(n) == fireNonBlocking(n, "read")
\* case cbData := <-writeCB: g.fireWriteComplete(cbData)
fireWriteComplete(n) == fireNonBlocking(n, "write")

\* case cbData := <-cancelCB: g.fireCancelComplete(cbData): a plain send to
\* each queue of the list. The loop stays in the fan-out while a send waits.
fireCancelComplete(n) ==
    /\ g.att[n].pc = "select"
    /\ g.att[n].raw["cancel"] # <<>>
    /\ LET e == Head(g.att[n].raw["cancel"])
           list == g.lists["cancel"]
           r == sendAll(chan, list, 1, e)
       IN /\ chan' = r.ch
          /\ g' = IF r.idx > Len(list)
                  THEN [g EXCEPT !.att[n].raw["cancel"] = Tail(@)]
                  ELSE [g EXCEPT !.att[n].raw["cancel"] = Tail(@),
                                 !.att[n].pc = "send", !.att[n].ev = e,
                                 !.att[n].snap = list, !.att[n].idx = r.idx]
    /\ UNCHANGED notGroup

\* The waiting send of fireCancelComplete goes on once its queue has room.
CanSend(n) == ~Full(chan, g.att[n].snap[g.att[n].idx])

resumeCancelSend(n) ==
    /\ g.att[n].pc = "send"
    /\ CanSend(n)
    /\ LET r == sendAll(chan, g.att[n].snap, g.att[n].idx, g.att[n].ev)
       IN /\ chan' = r.ch
          /\ g' = IF r.idx > Len(g.att[n].snap)
                  THEN [g EXCEPT !.att[n].pc = "select", !.att[n].ev = 0,
                                 !.att[n].snap = <<>>, !.att[n].idx = 0]
                  ELSE [g EXCEPT !.att[n].idx = r.idx]
    /\ UNCHANGED notGroup

\* The application takes one event off a subscriber queue.
Receive(c) ==
    /\ chan[c] # <<>>
    /\ chan' = [chan EXCEPT ![c] = Tail(@)]
    /\ UNCHANGED <<g, notGroup>>

\* A group that is never released: one application thread registers queues
\* while the dispatch goroutine, the server and the consumers run. The context
\* of the loop is never cancelled.
DispatchInit == g = OPCGroup({1}) /\ chan = NoChans /\ OthersIdleG
DispatchNext ==
    \/ \E t \in DOMAIN g.thr, c \in Chans, o \in AdviseOutcomes : RegisterDataChange(t, c, o)
    \/ \E t \in DOMAIN g.thr, c \in Chans, o \in AdviseOutcomes : RegisterReadComplete(t, c, o)
    \/ \E t \in DOMAIN g.thr, c \in Chans, o \in AdviseOutcomes : RegisterWriteComplete(t, c, o)
    \/ \E t \in DOMAIN g.thr, c \in Chans, o \in AdviseOutcomes : RegisterCancelComplete(t, c, o)
    \/ \E t \in DOMAIN g.thr : AdviseFinish(t)
    \/ \E t \in DOMAIN g.thr : AppendRead(t)
    \/ \E t \in DOMAIN g.thr : AppendWrite(t)
    \/ \E n \in Attempts : fireDataChange(n)
    \/ \E n \in Attempts : fireReadComplete(n)
    \/ \E n \in Attempts : fireWriteComplete(n)
    \/ \E n \in Attempts : fireCancelComplete(n)
    \/ \E n \in Attempts : resumeCancelSend(n)
    \/ \E n \in Attempts, k \in Kinds : RawEvent(n, k)
    \/ \E c \in Chans : Receive(c)
DispatchSpec == DispatchInit /\ [][DispatchNext]_vars

\* NumThreads application threads register queues of the four kinds
\* concurrently on a group that is never released.
ConcChans == {"d1", "r1", "w1", "c1"}
ConcInit == g = OPCGroup(Threads) /\ chan = NoChans /\ OthersIdleG
ConcNext ==
    \/ \E t \in DOMAIN g.thr, c \in ConcChans, o \in AdviseOutcomes : RegisterDataChange(t, c, o)
    \/ \E t \in DOMAIN g.thr, c \in ConcChans, o \in AdviseOutcomes : RegisterReadComplete(t, c, o)
    \/ \E t \in DOMAIN g.thr, c \in ConcChans, o \in AdviseOutcomes : RegisterWriteComplete(t, c, o)
    \/ \E t \in DOMAIN g.thr, c \in ConcChans, o \in AdviseOutcomes : RegisterCancelComplete(t, c, o)
    \/ \E t \in DOMAIN g.thr : AdviseFinish(t)
    \/ \E t \in DOMAIN g.thr : AppendRead(t)
    \/ \E t \in DOMAIN g.thr : AppendWrite(t)
ConcSpec == ConcInit /\ [][ConcNext]_vars

\* The whole life of a group: one application thread registers a data-change
\* and a cancel-complete queue and releases the group.
TeardownChans == {"d1", "c1"}
TeardownInit == g = OPCGroup({1}) /\ chan = NoChans /\ OthersIdleG
TeardownNext ==
    \/ \E t \in DOMAIN g.thr, c \in TeardownChans, o \in AdviseOutcomes :
          RegisterDataChange(t, c, o)
    \/ \E t \in DOMAIN g.thr, c \in TeardownChans, o \in AdviseOutcomes :
          RegisterCancelComplete(t, c, o)
    \/ \E t \in DOMAIN g.thr : AdviseFinish(t)
    \/ \E t \in DOMAIN g.thr : AppendRead(t)
    \/ \E t \in DOMAIN g.thr : AppendWrite(t)
    \/ \E t \in DOMAIN g.thr : ReleaseUnadvise(t)
    \/ \E t \in DOMAIN g.thr : ReleaseCancel(t)
    \/ \E t \in DOMAIN g.thr : ReleaseProviders(t)
    \/ \E n \in Attempts : LoopReturn(n)
    \/ \E n \in Attempts : fireDataChange(n)
    \/ \E n \in Attempts : fireCancelComplete(n)
    \/ \E n \in Attempts : resumeCancelSend(n)
    \/ \E n \in Attempts : RawEvent(n, "data")
    \/ \E n \in Attempts : RawEvent(n, "cancel")
    \/ \E c \in TeardownChans : Receive(c)
TeardownSpec == TeardownInit /\ [][TeardownNext]_vars


\* A thread inside a call goes on to the end of the call, and a dispatch
\* goroutine that can take a step takes one: the Go scheduler runs every
\* runnable goroutine. Nothing makes the application call into the group or
\* read its queues, nor the server send events.
TeardownFairness ==
    /\ \A t \in {1} : WF_vars(AdviseFinish(t) \/ AppendRead(t) \/ AppendWrite(t)
                              \/ ReleaseCancel(t) \/ ReleaseProviders(t))
    /\ \A n \in Attempts : WF_vars(LoopReturn(n) \/ fireDataChange(n)
                                   \/ fireCancelComplete(n) \/ resumeCancelSend(n))
TeardownFairSpec == TeardownSpec /\ TeardownFairness

\* ------------------------------------------------------------- OPCServer
ShutAttempts == 1..MaxShutAdvise
ServerRefs == {"iServer", "iCommon", "iItemProperty"}

\* One RegisterServerShutDown attempt that reached the remote object: the
\* references it acquired and released, its Advise and its Unadvise.
NoShutAtt == [conAcq |-> 0, ptAcq |-> 0, conRel |-> 0, ptRel |-> 0,
              adv |-> 0, unadv |-> 0]

\* The OPCServer struct. provider and groups are TRUE when non-nil;
\* container, point, event and cookie hold the attempt they came from, 0 when
\* nil. rel counts the Release calls on the provider's interfaces, groupsRel
\* the calls of s.groups.Release().
OPCServer(p, gr) ==
    [provider |-> p, groups |-> gr,
     container |-> 0, point |-> 0, event |-> 0, cookie |-> 0,
     att |-> [n \in ShutAttempts |-> NoShutAtt], nAtt |-> 0,
     rel |-> [r \in ServerRefs |-> 0], groupsRel |-> 0,
     receivers |-> 0, nDisconnect |-> 0, nRegister |-> 0, err |-> "nil"]

\* The remote part of RegisterServerShutDown: both deferred releases run on a
\* failed Advise, the first one on a failed FindConnectionPoint.
shutdownAdviseRemote(outcome) ==
    CASE outcome = "qiFail" -> NoShutAtt
      [] outcome = "findFail" -> [NoShutAtt EXCEPT !.conAcq = 1, !.conRel = 1]
      [] outcome = "adviseFail" ->
            [NoShutAtt EXCEPT !.conAcq = 1, !.conRel = 1, !.ptAcq = 1, !.ptRel = 1]
      [] OTHER -> [NoShutAtt EXCEPT !.conAcq = 1, !.ptAcq = 1, !.adv = 1]

RegisterServerShutDown(outcome) ==
    /\ srv.nRegister < MaxShutRegister
    /\ IF ~srv.provider
       THEN /\ outcome = "ok"
            /\ srv' = [srv EXCEPT !.nRegister = @ + 1, !.err = "uninitialized"]
       ELSE IF srv.event = 0
       THEN /\ srv.nAtt < MaxShutAdvise
            /\ LET n == srv.nAtt + 1 IN
               IF outcome = "ok"
               THEN srv' = [srv EXCEPT !.nRegister = @ + 1, !.nAtt = n,
                                        !.att[n] = shutdownAdviseRemote(outcome),
                                        !.container = n, !.point = n,
                                        !.event = n, !.cookie = n,
                                        !.receivers = @ + 1, !.err = "nil"]
               ELSE srv' = [srv EXCEPT !.nRegister = @ + 1, !.nAtt = n,
                                        !.att[n] = shutdownAdviseRemote(outcome),
                                        !.err = outcome]
       ELSE /\ outcome = "ok"
            /\ srv' = [srv EXCEPT !.nRegister = @ + 1, !.receivers = @ + 1,
                                   !.err = "nil"]
    /\ UNCHANGED notServer

\* provider.Release(): every interface of the provider is released.
releaseProvider(r) == [x \in ServerRefs |-> r[x] + 1]

\* Disconnect never clears a field, so each guard reads what Connect and
\* RegisterServerShutDown left.
Disconnect(unadviseFails) ==
    /\ srv.nDisconnect < MaxDisconnect
    /\ LET s1 == IF srv.point # 0
                 THEN [srv EXCEPT !.att[srv.point].unadv = @ + 1,
                                  !.att[srv.point].ptRel = @ + 1,
                                  !.err = IF unadviseFails THEN "unadvise" ELSE "nil"]
                 ELSE [srv EXCEPT !.err = "nil"]
           s2 == IF s1.container # 0
                 THEN [s1 EXCEPT !.att[s1.container].conRel = @ + 1]
                 ELSE s1
           s3 == IF s2.groups THEN [s2 EXCEPT !.groupsRel = @ + 1] ELSE s2
           s4 == IF s3.provider THEN [s3 EXCEPT !.rel = releaseProvider(@)] ELSE s3
       IN  srv' = [s4 EXCEPT !.nDisconnect = @ + 1]
    /\ (srv.point = 0 => ~unadviseFails)
    /\ UNCHANGED notServer

\* Connect builds provider and groups; a Session built field by field may
\* lack either.
ServerInit ==
    /\ \E p, gr \in BOOLEAN : srv = OPCServer(p, gr)
    /\ g = Idle /\ chan = Idle /\ mut = Idle /\ its = Idle /\ io = Idle /\ conn = Idle

ServerNext ==
    \/ \E o \in AdviseOutcomes : RegisterServerShutDown(o)
    \/ \E u \in BOOLEAN : Disconnect(u)

ServerSpec == ServerInit /\ [][ServerNext]_vars

\* ------------------------------------------------- remote-first mutators
Names == {"g1", "g2"}
Rates == {100, 250}
Handles == {1, 2}
VTs == {0, 3}               \* VT_EMPTY, VT_I4
Statuses == {-1, 0, 1}      \* a failure HRESULT, S_OK, S_FALSE

\* The locally cached fields of one OPCGroup (groupName, revisedUpdateRate)
\* and of one OPCItem of it (clientHandle, requestedDataType, isActive).
Local(nm, rt, h, vt, a) ==
    [groupName |-> nm, revisedUpdateRate |-> rt,
     clientHandle |-> h, requestedDataType |-> vt, isActive |-> a]

\* The last mutator call: its argument, whether the remote call returned an
\* error, the per-item status and the revised rate the remote call returned.
NoCall == [op |-> "none", arg |-> 0, err |-> FALSE, status |-> 0, revised |-> 0]

GetName == mut.local.groupName

\* A mutator returns after one remote call: pre keeps the cached fields as
\* they were when it was entered.
Returned(local, call) ==
    /\ mut' = [local |-> local, pre |-> mut.local, last |-> call]
    /\ UNCHANGED notMut

\* SetName that renames the cache whatever the remote call returned.
SetNameUnconditional(name, err) ==
    Returned([mut.local EXCEPT !.groupName = name],
             [NoCall EXCEPT !.op = "SetName", !.arg = name, !.err = err])

SetName(name, err) ==
    Returned(IF err THEN mut.local ELSE [mut.local EXCEPT !.groupName = name],
             [NoCall EXCEPT !.op = "SetName", !.arg = name, !.err = err])

\* SetState returns the revised rate, which SetUpdateRate drops.
SetUpdateRate(updateRate, revised, err) ==
    Returned(mut.local,
             [NoCall EXCEPT !.op = "SetUpdateRate", !.arg = updateRate, !.err = err,
                            !.revised = IF err THEN 0 ELSE revised])

\* An item mutator that stores the value after any call that returned no
\* call-level error.
itemMutatorIgnoringStatus(op, field, value, err, status) ==
    Returned(IF err THEN mut.local ELSE [mut.local EXCEPT ![field] = value],
             [NoCall EXCEPT !.op = op, !.arg = value, !.err = err,
                            !.status = IF err THEN 0 ELSE status])

\* The body the three item mutators share: one remote call over the item's
\* server handle, return on err # nil, return on errs[0] < 0, store.
itemMutator(op, field, value, err, status) ==
    Returned(IF err \/ status < 0 THEN mut.local
             ELSE [mut.local EXCEPT ![field] = value],
             [NoCall EXCEPT !.op = op, !.arg = value, !.err = err,
                            !.status = IF err THEN 0 ELSE status])

SetClientHandle(clientHandle, err, status) ==
    itemMutator("SetClientHandle", "clientHandle", clientHandle, err, status)

SetRequestedDataType(requestedDataType, err, status) ==
    itemMutator("SetRequestedDataType", "requestedDataType", requestedDataType,
                err, status)

SetIsActive(isActive, err, status) ==
    itemMutator("SetIsActive", "isActive", isActive, err, status)

ItemMutators == {"SetClientHandle", "SetRequestedDataType", "SetIsActive"}
MutatedField(op) ==
    CASE op = "SetName" -> "groupName"
      [] op = "SetUpdateRate" -> "revisedUpdateRate"
      [] op = "SetClientHandle" -> "clientHandle"
      [] op = "SetRequestedDataType" -> "requestedDataType"
      [] OTHER -> "isActive"
LocalFields == {"groupName", "revisedUpdateRate", "clientHandle",
                "requestedDataType", "isActive"}

\* NewOPCGroup stores the name and the revised rate AddGroup returned;
\* NewOPCItem stores the client handle, VT_EMPTY and the default active flag.
MutInit ==
    /\ \E nm \in Names, rt \in Rates, h \in Handles :
          mut = [local |-> Local(nm, rt, h, 0, TRUE),
                 pre |-> Local(nm, rt, h, 0, TRUE), last |-> NoCall]
    /\ g = Idle /\ chan = Idle /\ srv = Idle /\ its = Idle /\ io = Idle /\ conn = Idle

MutNext ==
    \/ \E nm \in Names, e \in BOOLEAN : SetName(nm, e)
    \/ \E r \in Rates, rv \in Rates, e \in BOOLEAN : SetUpdateRate(r, rv, e)
    \/ \E h \in Handles, e \in BOOLEAN, st \in Statuses : SetClientHandle(h, e, st)
    \/ \E vt \in VTs, e \in BOOLEAN, st \in Statuses : SetRequestedDataType(vt, e, st)
    \/ \E a \in BOOLEAN, e \in BOOLEAN, st \in Statuses : SetIsActive(a, e, st)

MutSpec == MutInit /\ [][MutNext]_vars

\* ------------------------------------------------------ OPCItems.AddItems
Tags == {"a", "b"}
TagLists == UNION {[1..n -> Tags] : n \in 0..MaxTags}
NilItem == [nil |-> TRUE]
NilError == [nil |-> TRUE]

\* The OPCItems struct: the item list and the client-handle counter; last is
\* what the last AddItems or Validate call was given and what it returned.
NoAddItems == [outcome |-> "none", tags |-> <<>>, errs |-> <<>>,
               opcItems |-> <<>>, resultErrors |-> <<>>]

\* last and rm keep the most recent call only: a call that starts with no
\* Remove running forgets the Remove before it, and Remove forgets last.
\* A Remove call: where it is (pc "idle" when none was made, "returned" after
\* it; the write lock is held in between), the handles requested, the list
\* as it was when the call took the lock, the items and handles it took from
\* the list, the handles it sent to RemoveItems (called: the remote call was
\* made) and whether Release was called on the removed items.
NoRemove == [pc |-> "idle", serverHandles |-> <<>>, before |-> <<>>,
             removedItems |-> <<>>, removedHandles |-> <<>>, called |-> FALSE,
             sent |-> <<>>, failed |-> FALSE, released |-> FALSE]

\* is.Lock() of AddItems and Remove can be taken.
Unlocked == its.rm.pc \in {"idle", "returned"}

\* The last batch mutator call: its arguments, the remote outcome the item
\* mutator of each index would get, the list before it and its result.
NoBatch == [op |-> "none", field |-> "none", serverHandles |-> <<>>,
            values |-> <<>>, outs |-> <<>>, before |-> <<>>,
            outcome |-> "none", resultErrors |-> <<>>]

\* nBatch is the number of batch mutator calls made.
OPCItems == [items |-> <<>>, itemID |-> 0, last |-> NoAddItems, rm |-> NoRemove,
             batch |-> NoBatch, nBatch |-> 0]

\* createDefinitions: one definition per tag, each with a fresh client handle.
createDefinitions(itemID, tags) ==
    [j \in 1..Len(tags) |-> [SzItemID |-> tags[j], HClient |-> itemID + j]]

\* The server handle the remote object gives the item of a definition.
serverHandleOf(def) == def.HClient

NewOPCItem(tag, serverHandle, clientHandle) ==
    [tag |-> tag, serverHandle |-> serverHandle, clientHandle |-> clientHandle,
     isActive |-> TRUE, requestedDataType |-> 0]

getError(errorCode) == [ErrorCode |-> errorCode]

\* AddItems that treats status 0 as a failure.
addFailedOnZero(status) == status <= 0

\* The test AddItems applies to errs[j].
addFailed(status) == status < 0

\* AddItems that keeps only the items of the call.
appendAddedOnly(items, opcItems) ==
    LET added(item) == item # NilItem IN SelectSeq(opcItems, added)

RECURSIVE appendAdded(_, _)
appendAdded(items, opcItems) ==
    IF opcItems = <<>> THEN items
    ELSE appendAdded(IF Head(opcItems) = NilItem THEN items
                     ELSE Append(items, Head(opcItems)),
                     Tail(opcItems))

\* AddItems that keeps the items of a batch whose call failed.
AddItemsKeepsFailedBatch(tags, callFails, errs) ==
    /\ Unlocked
    /\ its.itemID + Len(tags) <= MaxItemID
    /\ Len(errs) = Len(tags)
    /\ LET items == createDefinitions(its.itemID, tags)
           opcItems == [j \in 1..Len(tags) |->
                          IF addFailed(errs[j]) THEN NilItem
                          ELSE NewOPCItem(tags[j], serverHandleOf(items[j]),
                                          items[j].HClient)]
           resultErrors == [j \in 1..Len(tags) |->
                              IF addFailed(errs[j]) THEN getError(errs[j])
                              ELSE NilError]
       IN  IF tags = <<>>
           THEN /\ ~callFails
                /\ its' = [its EXCEPT !.rm = NoRemove, !.batch = NoBatch,
                                       !.last = [NoAddItems EXCEPT !.outcome = "panic"]]
           ELSE IF callFails
           THEN /\ \A j \in 1..Len(errs) : errs[j] = 0
                /\ its' = [its EXCEPT !.items = appendAdded(its.items, opcItems),
                                       !.itemID = @ + Len(tags), !.rm = NoRemove,
                                       !.batch = NoBatch,
                                       !.last = [NoAddItems EXCEPT !.outcome = "err",
                                                                   !.tags = tags]]
           ELSE its' = [its EXCEPT
                          !.items = appendAdded(its.items, opcItems),
                          !.itemID = its.itemID + Len(tags),
                          !.rm = NoRemove,
                          !.batch = NoBatch,
                          !.last = [outcome |-> "ok", tags |-> tags, errs |-> errs,
                                    opcItems |-> opcItems,
                                    resultErrors |-> resultErrors]]
    /\ UNCHANGED notItems

\* outcome "panic": IOPCItemMgt.AddItems takes &items[0] of an empty slice.
AddItems(tags, callFails, errs) ==
    /\ Unlocked
    /\ its.itemID + Len(tags) <= MaxItemID
    /\ Len(errs) = Len(tags)
    /\ LET items == createDefinitions(its.itemID, tags)
           opcItems == [j \in 1..Len(tags) |->
                          IF addFailed(errs[j]) THEN NilItem
                          ELSE NewOPCItem(tags[j], serverHandleOf(items[j]),
                                          items[j].HClient)]
           resultErrors == [j \in 1..Len(tags) |->
                              IF addFailed(errs[j]) THEN getError(errs[j])
                              ELSE NilError]
       IN  IF tags = <<>>
           THEN /\ ~callFails
                /\ its' = [its EXCEPT !.rm = NoRemove, !.batch = NoBatch,
                                       !.last = [NoAddItems EXCEPT !.outcome = "panic"]]
           ELSE IF callFails
           THEN /\ \A j \in 1..Len(errs) : errs[j] = 0
                /\ its' = [its EXCEPT !.itemID = @ + Len(tags), !.rm = NoRemove,
                                       !.batch = NoBatch,
                                       !.last = [NoAddItems EXCEPT !.outcome = "err",
                                                                   !.tags = tags]]
           ELSE its' = [its EXCEPT
                          !.items = appendAdded(its.items, opcItems),
                          !.itemID = its.itemID + Len(tags),
                          !.rm = NoRemove,
                          !.batch = NoBatch,
                          !.last = [outcome |-> "ok", tags |-> tags, errs |-> errs,
                                    opcItems |-> opcItems,
                                    resultErrors |-> resultErrors]]
    /\ UNCHANGED notItems

\* A Validate that retains the items the server accepted.
ValidateAdding(tags, callFails, errs) == AddItems(tags, callFails, errs)

\* Validate builds its definitions itself, takes no lock, and submits them
\* with ValidateItems, which indexes items[0] like AddItems.
Validate(tags, callFails, errs) ==
    /\ its.itemID + Len(tags) <= MaxItemID
    /\ Len(errs) = Len(tags)
    /\ LET resultErrors == [j \in 1..Len(errs) |->
                              IF errs[j] < 0 THEN getError(errs[j]) ELSE NilError]
           rm == IF Unlocked THEN NoRemove ELSE its.rm
       IN  IF tags = <<>>
           THEN /\ ~callFails
                /\ its' = [its EXCEPT
                             !.rm = rm,
                             !.last = [NoAddItems EXCEPT !.outcome = "validatePanic"]]
           ELSE IF callFails
           THEN /\ \A j \in 1..Len(errs) : errs[j] = 0
                /\ its' = [its EXCEPT !.itemID = @ + Len(tags), !.rm = rm,
                                       !.last = [NoAddItems EXCEPT
                                                   !.outcome = "validateErr",
                                                   !.tags = tags]]
           ELSE its' = [its EXCEPT
                          !.itemID = @ + Len(tags), !.rm = rm,
                          !.last = [outcome |-> "validated", tags |-> tags,
                                    errs |-> errs, opcItems |-> <<>>,
                                    resultErrors |-> resultErrors]]
    /\ UNCHANGED notItems

HandleLists == UNION {[1..n -> 1..MaxItemID] : n \in 0..MaxTags}
Range(f) == {f[i] : i \in DOMAIN f}

\* A Remove that leaves the list alone until the remote call is over.
RemoveLocalKeeping(serverHandles) ==
    /\ Unlocked
    /\ LET drop(item) == item.serverHandle \in Range(serverHandles)
           removedItems == SelectSeq(its.items, drop)
       IN  its' = [its EXCEPT
                     !.last = NoAddItems,
                     !.rm = [NoRemove EXCEPT
                               !.pc = "remote",
                               !.serverHandles = serverHandles,
                               !.before = its.items,
                               !.removedItems = removedItems,
                               !.removedHandles =
                                   [i \in 1..Len(removedItems) |->
                                      removedItems[i].serverHandle]]]
    /\ UNCHANGED notItems

\* Remove, first part: with the write lock taken, the items whose server
\* handle is in toDelete leave the list, in one pass over it.
RemoveLocal(serverHandles) ==
    /\ Unlocked
    /\ LET toDelete == Range(serverHandles)
           keep(item) == item.serverHandle \notin toDelete
           drop(item) == item.serverHandle \in toDelete
           removedItems == SelectSeq(its.items, drop)
       IN  its' = [its EXCEPT
                     !.items = SelectSeq(its.items, keep),
                     !.last = NoAddItems,
                     !.rm = [NoRemove EXCEPT
                               !.pc = "remote",
                               !.serverHandles = serverHandles,
                               !.before = its.items,
                               !.removedItems = removedItems,
                               !.removedHandles =
                                   [i \in 1..Len(removedItems) |->
                                      removedItems[i].serverHandle]]]
    /\ UNCHANGED notItems

\* A Remove that sends every requested handle to RemoveItems.
RemoveRemoteRequested(remoteFails) ==
    /\ its.rm.pc = "remote"
    /\ IF Len(its.rm.serverHandles) > 0
       THEN its' = [its EXCEPT !.rm.pc = "release", !.rm.called = TRUE,
                                !.rm.sent = its.rm.serverHandles,
                                !.rm.failed = remoteFails]
       ELSE /\ ~remoteFails
            /\ its' = [its EXCEPT !.rm.pc = "release"]
    /\ UNCHANGED notItems

\* Remove, second part: RemoveItems is called when a handle was found; its
\* result is dropped.
RemoveRemote(remoteFails) ==
    /\ its.rm.pc = "remote"
    /\ IF Len(its.rm.removedHandles) > 0
       THEN its' = [its EXCEPT !.rm.pc = "release", !.rm.called = TRUE,
                                !.rm.sent = its.rm.removedHandles,
                                !.rm.failed = remoteFails]
       ELSE /\ ~remoteFails
            /\ its' = [its EXCEPT !.rm.pc = "release"]
    /\ UNCHANGED notItems

\* Remove, last part: Release on every removed item, then the deferred Unlock.
RemoveRelease ==
    /\ its.rm.pc = "release"
    /\ its' = [its EXCEPT !.rm.pc = "returned", !.rm.released = TRUE]
    /\ UNCHANGED notItems

ItemsInit ==
    /\ its = OPCItems
    /\ g = Idle /\ chan = Idle /\ srv = Idle /\ mut = Idle /\ io = Idle /\ conn = Idle

StatusLists == UNION {[1..n -> Statuses] : n \in 0..MaxTags}

ItemsNext ==
    \/ \E tags \in TagLists, f \in BOOLEAN, errs \in StatusLists :
          AddItems(tags, f, errs)
    \/ \E tags \in TagLists, f \in BOOLEAN, errs \in StatusLists :
          Validate(tags, f, errs)

ItemsSpec == ItemsInit /\ [][ItemsNext]_vars

\* Remove on a collection that AddItems filled; one tag name is enough here.
RemoveTagLists == UNION {[1..n -> {"a"}] : n \in 1..MaxTags}

RemoveInit == ItemsInit

RemoveNext ==
    \/ \E tags \in RemoveTagLists, errs \in StatusLists : AddItems(tags, FALSE, errs)
    \/ \E hs \in HandleLists : RemoveLocal(hs)
    \/ \E f \in BOOLEAN : RemoveRemote(f)
    \/ RemoveRelease

RemoveSpec == RemoveInit /\ [][RemoveNext]_vars

\* AddItems alone, with batch calls that fail and batch calls that succeed.
AddFailInit == ItemsInit

AddFailNext ==
    \E tags \in TagLists, f \in BOOLEAN, errs \in StatusLists :
       AddItems(tags, f, errs)

AddFailSpec == AddFailInit /\ [][AddFailNext]_vars

\* ------------------- OPCItems.SetActive, SetClientHandles, SetDataTypes
\* The handles a batch call names: two that AddItems hands out and one that
\* it never does.
BatchHandles == {1, 2, MaxItemID + 1}
BatchHandleLists == UNION {[1..n -> BatchHandles] : n \in 1..MaxHandles}

\* What the remote call of one item mutator returns: a call-level error, or
\* the status of the item.
RemoteOutcomes == {[err |-> TRUE, status |-> 0]} \cup
                  {[err |-> FALSE, status |-> st] : st \in {-1, 0}}
NoOutcome == [err |-> FALSE, status |-> 0]
NotFound == [msg |-> "not found"]
RemoteError == [msg |-> "remote"]

\* The error an item mutator returns for a remote outcome (nil on success).
mutatorError(o) ==
    IF o.err THEN RemoteError
    ELSE IF o.status < 0 THEN getError(o.status) ELSE NilError

\* GetOPCItem: the index of the first item with the handle, 0 when none has it.
GetOPCItem(items, handle) ==
    LET idx == {k \in 1..Len(items) : items[k].serverHandle = handle} IN
    IF idx = {} THEN 0 ELSE CHOOSE k \in idx : \A m \in idx : k <= m

\* A loop that stops at the first handle it does not find; the entries after
\* it stay nil.
RECURSIVE batchLoopStopping(_, _, _, _, _, _, _)
batchLoopStopping(items, serverHandles, field, values, outs, i, errs) ==
    IF i > Len(serverHandles)
    THEN [items |-> items, errs |-> errs, panicked |-> FALSE]
    ELSE LET k == GetOPCItem(items, serverHandles[i]) IN
         IF k = 0
         THEN [items |-> items,
               errs |-> errs \o <<NotFound>> \o
                        [j \in 1..(Len(serverHandles) - i) |-> NilError],
               panicked |-> FALSE]
         ELSE IF i > Len(values)
         THEN [items |-> items, errs |-> errs, panicked |-> TRUE]
         ELSE batchLoopStopping(
                IF mutatorError(outs[i]) = NilError
                THEN [items EXCEPT ![k][field] = values[i]] ELSE items,
                serverHandles, field, values, outs, i + 1,
                Append(errs, mutatorError(outs[i])))

\* The loop the three batch mutators share: look the handle up, record the
\* lookup error and continue, else call the item's mutator with values[i]
\* (an index past the end of values panics) and record its error.
RECURSIVE batchLoop(_, _, _, _, _, _, _)
batchLoop(items, serverHandles, field, values, outs, i, errs) ==
    IF i > Len(serverHandles)
    THEN [items |-> items, errs |-> errs, panicked |-> FALSE]
    ELSE LET k == GetOPCItem(items, serverHandles[i]) IN
         IF k = 0
         THEN batchLoop(items, serverHandles, field, values, outs, i + 1,
                        Append(errs, NotFound))
         ELSE IF i > Len(values)
         THEN [items |-> items, errs |-> errs, panicked |-> TRUE]
         ELSE batchLoop(
                IF mutatorError(outs[i]) = NilError
                THEN [items EXCEPT ![k][field] = values[i]] ELSE items,
                serverHandles, field, values, outs, i + 1,
                Append(errs, mutatorError(outs[i])))

\* outs[i] is the remote outcome of the mutator call of index i; an index
\* whose mutator is never called has none.  The caller makes its calls one
\* after the other: a call starts once the result of the previous one was
\* taken.
batchIdle == Unlocked /\ its.batch = NoBatch /\ its.nBatch < MaxBatch

batchMutator(op, field, serverHandles, values, outs) ==
    /\ batchIdle
    /\ Len(outs) = Len(serverHandles)
    /\ \A i \in 1..Len(serverHandles) :
          (GetOPCItem(its.items, serverHandles[i]) = 0 \/ i > Len(values))
             => outs[i] = NoOutcome
    /\ LET r == batchLoop(its.items, serverHandles, field, values, outs, 1, <<>>)
       IN  its' = [its EXCEPT
                     !.items = r.items,
                     !.nBatch = @ + 1,
                     !.last = NoAddItems,
                     !.rm = NoRemove,
                     !.batch = [op |-> op, field |-> field,
                                serverHandles |-> serverHandles,
                                values |-> values, outs |-> outs,
                                before |-> its.items,
                                outcome |-> IF r.panicked THEN "panic"
                                            ELSE "returned",
                                resultErrors |-> IF r.panicked THEN <<>>
                                                 ELSE r.errs]]
    /\ UNCHANGED notItems

SetActive(serverHandles, active, outs) ==
    batchMutator("SetActive", "isActive", serverHandles,
                 [i \in 1..Len(serverHandles) |-> active], outs)

SetClientHandles(serverHandles, clientHandles, outs) ==
    batchMutator("SetClientHandles", "clientHandle", serverHandles,
                 clientHandles, outs)

SetDataTypes(serverHandles, requestedDataTypes, outs) ==
    batchMutator("SetDataTypes", "requestedDataType", serverHandles,
                 requestedDataTypes, outs)

\* The caller takes the result of the batch call that returned or panicked.
batchReturn ==
    /\ its.batch # NoBatch
    /\ its' = [its EXCEPT !.batch = NoBatch]
    /\ UNCHANGED notItems

ClientHandleLists == UNION {[1..n -> {9}] : n \in 1..MaxHandles}
DataTypeLists == UNION {[1..n -> {3}] : n \in 1..MaxHandles}

BatchInit == ItemsInit

\* The collection is filled by AddItems calls the server accepts in full.
BatchNext ==
    \/ \E tags \in RemoveTagLists :
          AddItems(tags, FALSE, [j \in 1..Len(tags) |-> 0])
    \/ /\ batchIdle
       /\ \E hs \in BatchHandleLists :
             \E outs \in [1..Len(hs) -> RemoteOutcomes] :
                SetActive(hs, FALSE, outs)
    \/ /\ batchIdle
       /\ \E hs \in BatchHandleLists, chs \in ClientHandleLists :
             \E outs \in [1..Len(hs) -> RemoteOutcomes] :
                SetClientHandles(hs, chs, outs)
    \/ /\ batchIdle
       /\ \E hs \in BatchHandleLists, dts \in DataTypeLists :
             \E outs \in [1..Len(hs) -> RemoteOutcomes] :
                SetDataTypes(hs, dts, outs)
    \/ batchReturn

BatchSpec == BatchInit /\ [][BatchNext]_vars

\* ---------------------------------------------- OPCGroup.SyncRead, SyncWrite
SyncHandleLists == UNION {[1..n -> {1, 2, 3}] : n \in 1..MaxHandles}

\* The last synchronous call of the group: its handles, whether the remote
\* call was made and failed, the statuses it returned, the variants the call
\* built and cleared, and what the call returned (err: the call-level error,
\* states: the item states were returned, resultErrs: the per-element errors).
\* clears[i] counts the Clear calls on the variant built from values[i],
\* emptyClears those on elements of variants no value was encoded into.
NoSync == [op |-> "none", serverHandles |-> <<>>, remoteCalled |-> FALSE,
           remoteFailed |-> FALSE, errList |-> <<>>, built |-> 0, cleared |-> 0,
           clears |-> <<>>, emptyClears |-> 0,
           err |-> "nil", states |-> FALSE, resultErrs |-> <<>>]

\* A translation that reports status 0 as an error too.
translateErrorsNonPositive(errList) ==
    [i \in 1..Len(errList) |->
       IF errList[i] <= 0 THEN getError(errList[i]) ELSE NilError]

\* The loop over errList of SyncRead and SyncWrite: g.getError at every
\* negative status, nil elsewhere.
translateErrors(errList) ==
    [i \in 1..Len(errList) |->
       IF errList[i] < 0 THEN getError(errList[i]) ELSE NilError]

SyncRead(serverHandles, callFails, errList) ==
    /\ Len(errList) = Len(serverHandles)
    /\ IF callFails
       THEN /\ \A i \in 1..Len(errList) : errList[i] = 0
            /\ io' = [NoSync EXCEPT !.op = "SyncRead",
                                    !.serverHandles = serverHandles,
                                    !.remoteCalled = TRUE, !.remoteFailed = TRUE,
                                    !.err = "remote"]
       ELSE io' = [NoSync EXCEPT !.op = "SyncRead",
                                 !.serverHandles = serverHandles,
                                 !.remoteCalled = TRUE, !.errList = errList,
                                 !.states = TRUE,
                                 !.resultErrs = translateErrors(errList)]
    /\ UNCHANGED notIO

\* A deferred loop that misses the value encoded last.
clearAllButLast(n, built) == [i \in 1..n |-> IF i < built THEN 1 ELSE 0]

\* The deferred loop of SyncWrite over variantWrappers: Clear on every wrapper
\* that is not nil, i.e. on those of the values encoded before the return.
clearWrappers(n, built) == [i \in 1..n |-> IF i <= built THEN 1 ELSE 0]

\* The deferred loop of AsyncWrite over variants: Clear on every element, the
\* encoded ones and the zero VARIANTs after them.
clearVariants(n, built) == [i \in 1..n |-> IF i <= built THEN 1 ELSE 0]

clearEmptyVariants(n, built) == n - built

\* SyncWrite that goes on to the remote write after a value was rejected.
SyncWriteDespiteEncodeError(serverHandles, encodes, callFails, errList) ==
    /\ Len(errList) = Len(serverHandles)
    /\ Len(encodes) = Len(serverHandles)
    /\ LET bad == {i \in 1..Len(encodes) : ~encodes[i]}
           firstBad == CHOOSE i \in bad : \A j \in bad : i <= j
       IN  IF bad # {}
           THEN /\ ~callFails
                /\ \A i \in 1..Len(errList) : errList[i] = 0
                /\ io' = [NoSync EXCEPT !.op = "SyncWrite",
                                        !.serverHandles = serverHandles,
                                        !.built = firstBad - 1,
                                        !.cleared = firstBad - 1,
                                        !.clears = clearWrappers(Len(encodes), firstBad - 1),
                                        !.remoteCalled = TRUE,
                                        !.err = "encode"]
           ELSE IF callFails
           THEN /\ \A i \in 1..Len(errList) : errList[i] = 0
                /\ io' = [NoSync EXCEPT !.op = "SyncWrite",
                                        !.serverHandles = serverHandles,
                                        !.built = Len(encodes),
                                        !.cleared = Len(encodes),
                                        !.clears = clearWrappers(Len(encodes), Len(encodes)),
                                        !.remoteCalled = TRUE,
                                        !.remoteFailed = TRUE, !.err = "remote"]
           ELSE io' = [NoSync EXCEPT !.op = "SyncWrite",
                                     !.serverHandles = serverHandles,
                                     !.built = Len(encodes),
                                     !.cleared = Len(encodes),
                                     !.clears = clearWrappers(Len(encodes), Len(encodes)),
                                     !.remoteCalled = TRUE, !.errList = errList,
                                     !.resultErrs = translateErrors(errList)]
    /\ UNCHANGED notIO

\* encodes[i]: com.NewVariant accepts values[i]. The loop returns at the first
\* value it rejects; the deferred loop clears the variants built so far.
SyncWrite(serverHandles, encodes, callFails, errList) ==
    /\ Len(errList) = Len(serverHandles)
    /\ Len(encodes) = Len(serverHandles)
    /\ LET bad == {i \in 1..Len(encodes) : ~encodes[i]}
           firstBad == CHOOSE i \in bad : \A j \in bad : i <= j
       IN  IF bad # {}
           THEN /\ ~callFails
                /\ \A i \in 1..Len(errList) : errList[i] = 0
                /\ io' = [NoSync EXCEPT !.op = "SyncWrite",
                                        !.serverHandles = serverHandles,
                                        !.built = firstBad - 1,
                                        !.cleared = firstBad - 1,
                                        !.clears = clearWrappers(Len(encodes), firstBad - 1),
                                        !.err = "encode"]
           ELSE IF callFails
           THEN /\ \A i \in 1..Len(errList) : errList[i] = 0
                /\ io' = [NoSync EXCEPT !.op = "SyncWrite",
                                        !.serverHandles = serverHandles,
                                        !.built = Len(encodes),
                                        !.cleared = Len(encodes),
                                        !.clears = clearWrappers(Len(encodes), Len(encodes)),
                                        !.remoteCalled = TRUE,
                                        !.remoteFailed = TRUE, !.err = "remote"]
           ELSE io' = [NoSync EXCEPT !.op = "SyncWrite",
                                     !.serverHandles = serverHandles,
                                     !.built = Len(encodes),
                                     !.cleared = Len(encodes),
                                     !.clears = clearWrappers(Len(encodes), Len(encodes)),
                                     !.remoteCalled = TRUE, !.errList = errList,
                                     !.resultErrs = translateErrors(errList)]
    /\ UNCHANGED notIO

\* AsyncWrite: the same encoding loop, then the remote AsyncWrite; the
\* deferred loop runs over variants.
AsyncWrite(serverHandles, encodes, callFails, errList) ==
    /\ Len(errList) = Len(serverHandles)
    /\ Len(encodes) = Len(serverHandles)
    /\ LET n == Len(encodes)
           bad == {i \in 1..n : ~encodes[i]}
           firstBad == CHOOSE i \in bad : \A j \in bad : i <= j
           built == IF bad # {} THEN firstBad - 1 ELSE n
           call == [NoSync EXCEPT !.op = "AsyncWrite",
                                  !.serverHandles = serverHandles,
                                  !.built = built, !.cleared = built,
                                  !.clears = clearVariants(n, built),
                                  !.emptyClears = clearEmptyVariants(n, built)]
       IN  IF bad # {}
           THEN /\ ~callFails
                /\ \A i \in 1..Len(errList) : errList[i] = 0
                /\ io' = [call EXCEPT !.err = "encode"]
           ELSE IF callFails
           THEN /\ \A i \in 1..Len(errList) : errList[i] = 0
                /\ io' = [call EXCEPT !.remoteCalled = TRUE,
                                      !.remoteFailed = TRUE, !.err = "remote"]
           ELSE io' = [call EXCEPT !.remoteCalled = TRUE, !.errList = errList,
                                   !.resultErrs = translateErrors(errList)]
    /\ UNCHANGED notIO

SyncStatusLists == UNION {[1..n -> Statuses] : n \in 1..MaxHandles}
EncodeLists == UNION {[1..n -> BOOLEAN] : n \in 1..MaxHandles}

SyncInit ==
    /\ io = NoSync
    /\ g = Idle /\ chan = Idle /\ srv = Idle /\ mut = Idle /\ its = Idle /\ conn = Idle

\* the encodings of n values, and the statuses a call on n handles can
\* return: none (all zero here) when the call does not reach the server or
\* fails as a whole
EncodeListsOf(n) == {enc \in EncodeLists : Len(enc) = n}
SyncStatusListsOf(n, returned) ==
    IF returned THEN {es \in SyncStatusLists : Len(es) = n}
    ELSE {[i \in 1..n |-> 0]}

SyncNext ==
    \/ \E hs \in SyncHandleLists, f \in BOOLEAN :
          \E es \in SyncStatusListsOf(Len(hs), ~f) : SyncRead(hs, f, es)
    \/ \E hs \in SyncHandleLists, f \in BOOLEAN :
          \E enc \in EncodeListsOf(Len(hs)) :
             \E es \in SyncStatusListsOf(Len(hs), ~f /\ \A i \in 1..Len(enc) : enc[i]) :
                SyncWrite(hs, enc, f, es)
    \/ \E hs \in SyncHandleLists, f \in BOOLEAN :
          \E enc \in EncodeListsOf(Len(hs)) :
             \E es \in SyncStatusListsOf(Len(hs), ~f /\ \A i \in 1..Len(enc) : enc[i]) :
                AsyncWrite(hs, enc, f, es)

SyncSpec == SyncInit /\ [][SyncNext]_vars

\* ------------------------------------------------ OPCItem.Read, OPCItem.Write
Readers == {"r1", "r2"}
Values == {7, 8}
Qualities == {192}

\* The cache of an item NewOPCItem built: nil value, quality 0, zero time.
ZeroCache == [value |-> 0, quality |-> 0, timestamp |-> 0]
Uninitialized == [msg |-> "uninitialized item"]
EncodeError == [msg |-> "encode"]
NoRead == [nil |-> TRUE]

\* What the provider's SyncRead returns for the one handle of the item: a
\* call-level error, or a status with an item state.  The provider stamps the
\* state with its clock (ReadRemote).
ReadOutcomes == {[err |-> TRUE, status |-> 0, value |-> 0, quality |-> 0]} \cup
                {[err |-> FALSE, status |-> st, value |-> v, quality |-> q] :
                    st \in Statuses, v \in Values, q \in Qualities}
WriteOutcomes == {[err |-> TRUE, status |-> 0]} \cup
                 {[err |-> FALSE, status |-> st] : st \in Statuses}

\* Each caller is between calls (idle) or inside Read, after the remote call
\* and before the lock (remote), holding the state the call returned.
IdleReader == [pc |-> "idle", res |-> NoRead]

\* The item: whether it has a group provider, its cache, the callers, the
\* number of remote reads completed (the provider's clock), the state the
\* latest successful remote read returned, and what the last call that
\* returned was and gave back.
OPCItem(groupProvider) ==
    [groupProvider |-> groupProvider, cache |-> ZeroCache,
     thr |-> [t \in Readers |-> IdleReader], clock |-> 0,
     lastRemote |-> NoRead,
     last |-> [op |-> "none", thread |-> "none", ret |-> NoRead,
               err |-> NilError]]

GetValue == io.cache.value
GetQuality == io.cache.quality
GetTimestamp == io.cache.timestamp

\* Read that stores the state of a negative status too.
readFailedOnError(out) == out.err

\* The two early returns of Read after the remote call.
readFailed(out) == out.err \/ out.status < 0

readError(out) == IF out.err THEN RemoteError ELSE getError(out.status)

\* Read of an item without a group provider.
ReadUninitialized(t) ==
    /\ io.thr[t].pc = "idle"
    /\ ~io.groupProvider
    /\ io' = [io EXCEPT !.last = [op |-> "Read", thread |-> t, ret |-> NoRead,
                                  err |-> Uninitialized]]
    /\ UNCHANGED notIO

\* Read up to the lock: the remote SyncRead, made without the item's lock,
\* and the two early returns.
ReadRemote(t, out) ==
    /\ io.thr[t].pc = "idle"
    /\ io.groupProvider
    /\ io.clock < MaxReads
    /\ LET state == [value |-> out.value, quality |-> out.quality,
                     timestamp |-> io.clock + 1]
       IN  io' = [io EXCEPT
                    !.clock = @ + 1,
                    !.lastRemote = IF out.err \/ out.status < 0 THEN @
                                   ELSE state,
                    !.thr[t] = IF readFailed(out) THEN IdleReader
                               ELSE [pc |-> "remote",
                                     res |-> [err |-> out.err,
                                              status |-> out.status,
                                              state |-> state]],
                    !.last = IF readFailed(out)
                             THEN [op |-> "Read", thread |-> t, ret |-> NoRead,
                                   err |-> readError(out)]
                             ELSE @]
    /\ UNCHANGED notIO

\* A store that leaves the timestamp of the cache alone.
storeCacheKeepingTimestamp(cache, state) ==
    [cache EXCEPT !.value = state.value, !.quality = state.quality]

\* The three assignments Read makes under the lock.
storeCache(cache, state) ==
    [cache EXCEPT !.value = state.value, !.quality = state.quality,
                  !.timestamp = state.timestamp]

\* Read from the lock on: store the state and return it.
ReadStore(t) ==
    /\ io.thr[t].pc = "remote"
    /\ io' = [io EXCEPT
                !.cache = storeCache(@, io.thr[t].res.state),
                !.thr[t] = IdleReader,
                !.last = [op |-> "Read", thread |-> t,
                          ret |-> io.thr[t].res.state, err |-> NilError]]
    /\ UNCHANGED notIO

\* Write: the variant is built first, then the remote SyncWrite is made; the
\* cache is not touched.
Write(t, encodes, out) ==
    /\ io.thr[t].pc = "idle"
    /\ io' = [io EXCEPT
                !.last = [op |-> "Write", thread |-> t, ret |-> NoRead,
                          err |-> IF ~io.groupProvider THEN Uninitialized
                                  ELSE IF ~encodes THEN EncodeError
                                  ELSE IF out.err THEN RemoteError
                                  ELSE IF out.status < 0
                                       THEN getError(out.status)
                                  ELSE NilError]]
    /\ UNCHANGED notIO

ReadInit ==
    /\ \E p \in BOOLEAN : io = OPCItem(p)
    /\ g = Idle /\ chan = Idle /\ srv = Idle /\ mut = Idle /\ its = Idle /\ conn = Idle

ReadNext ==
    \/ \E t \in Readers : ReadUninitialized(t)
    \/ \E t \in Readers, out \in ReadOutcomes : ReadRemote(t, out)
    \/ \E t \in Readers : ReadStore(t)
    \/ \E t \in Readers, enc \in BOOLEAN, out \in WriteOutcomes :
          Write(t, enc, out)

ReadSpec == ReadInit /\ [][ReadNext]_vars

\* --------------------------------------------------------- Connect, getClsID
ClsIDs == {1, 2, 3}
NilClsID == 0
TierOrder == <<"v2", "v1", "reg">>
TierNames == {"v2", "v1", "reg"}

\* The texts of the errors a tier can return ("": no error).
Causes == {"denied", "unknown"}
NoCause == ""

\* What a class-id tier returns when it is asked: an error, or a class id.
TierOutcomes == {[ok |-> FALSE, clsid |-> NilClsID, cause |-> e] : e \in Causes} \cup
                {[ok |-> TRUE, clsid |-> c, cause |-> NoCause] : c \in ClsIDs}

\* An entry of errorList that names the tier only.
tierErrorWithoutCause(tier, cause) == [tier |-> tier, text |-> NoCause]

\* fmt.Errorf("get clsid from <tier> error: %v", err): a new error whose
\* text names the tier and holds the text of err.
tierError(tier, cause) == [tier |-> tier, text |-> cause]

\* The tiers asked in order: the first that returns no error ends the search
\* with its class id; every error met before goes to errorList, which is
\* joined and returned when no tier is left.  consulted lists the tiers asked.
RECURSIVE getClsIDFrom(_, _, _, _)
getClsIDFrom(order, tiers, i, errorList) ==
    IF i > Len(order)
    THEN [clsid |-> NilClsID, err |-> [joined |-> errorList],
          consulted |-> order]
    ELSE IF tiers[order[i]].ok
    THEN [clsid |-> tiers[order[i]].clsid, err |-> NilError,
          consulted |-> SubSeq(order, 1, i)]
    ELSE getClsIDFrom(order, tiers, i + 1,
                      Append(errorList,
                             tierError(order[i], tiers[order[i]].cause)))

\* A search that asks the v1 class list before the v2 class list.
getClsIDV1First(tiers) == getClsIDFrom(<<"v1", "v2", "reg">>, tiers, 1, <<>>)

getClsID(tiers) == getClsIDFrom(TierOrder, tiers, 1, <<>>)

\* The steps of Connect after getClsID that can fail ("none": none does).
ConnectFailures == {"none", "make", "common", "properties"}

\* The references Connect acquires, in the order it acquires them.
ConnectRefs == <<"server", "common", "properties">>
RefNames == {"server", "common", "properties"}

\* How many of them the call holds when the step that fails is reached.
connectAcquired(fails) ==
    CASE fails = "make" -> 0
      [] fails = "common" -> 1
      [] fails = "properties" -> 2
      [] OTHER -> 3

NoConnect == [outcome |-> "none", got |-> [nil |-> TRUE], made |-> NilClsID,
              acquired |-> {}, released |-> [r \in RefNames |-> 0],
              session |-> FALSE, err |-> NilError]

\* Deferred functions that release only the reference acquired last.
deferredReleasesLast(n, err) ==
    [r \in RefNames |->
       IF err # NilError /\ n > 0 /\ r = ConnectRefs[n] THEN 1 ELSE 0]

\* The deferred functions of Connect, one registered after each reference
\* is acquired: each releases its reference when the call returns an error.
deferredReleases(n, err) ==
    [r \in RefNames |->
       IF err # NilError /\ \E i \in 1..n : ConnectRefs[i] = r THEN 1 ELSE 0]

\* Connect: the class id, the server object made from it and the two
\* interfaces queried from it; a failing step returns its wrapped error and
\* the deferred functions run.
Connect(fails) ==
    /\ conn.call = NoConnect
    /\ LET r == getClsID(conn.tiers) IN
       \/ /\ r.err # NilError
          /\ fails = "none"
          /\ conn' = [conn EXCEPT !.call =
                        [outcome |-> "error", got |-> r, made |-> NilClsID,
                         acquired |-> {},
                         released |-> [x \in RefNames |-> 0],
                         session |-> FALSE,
                         err |-> [wrapped |-> "get clsid", cause |-> r.err]]]
       \/ /\ r.err = NilError
          /\ LET n == connectAcquired(fails)
                 err == IF fails = "none" THEN NilError
                        ELSE [wrapped |-> fails, cause |-> NilError]
             IN  conn' = [conn EXCEPT !.call =
                        [outcome |-> IF fails = "none" THEN "connected"
                                     ELSE "error",
                         got |-> r,
                         made |-> IF fails = "make" THEN NilClsID ELSE r.clsid,
                         acquired |-> {ConnectRefs[i] : i \in 1..n},
                         released |-> deferredReleases(n, err),
                         session |-> (fails = "none"),
                         err |-> err]]
    /\ UNCHANGED notConn

\* The three tiers answer as the machine is set up; Connect has not run.
ClsIDInit ==
    /\ \E tiers \in [TierNames -> TierOutcomes] :
          conn = [tiers |-> tiers, call |-> NoConnect]
    /\ g = Idle /\ chan = Idle /\ srv = Idle /\ mut = Idle /\ its = Idle /\ io = Idle

ClsIDNext == \E fails \in ConnectFailures : Connect(fails)

ClsIDSpec == ClsIDInit /\ [][ClsIDNext]_vars

\* -------------------------------------------------------------- NewOPCGroup
\* The interfaces NewOPCGroup queries from the group object, in order.
NewGroupRefs == <<"syncIO", "asyncIO2", "itemMgt">>

\* The QueryInterface that fails ("none": none does).
NewGroupFailures == {"none", "syncIO", "asyncIO2", "itemMgt"}

NilGroup == [nil |-> TRUE]
NilInterface == [msg |-> "nil interface"]
NoNewGroup == [outcome |-> "none", group |-> NilGroup, acquired |-> {},
               released |-> [r \in GroupRefs |-> 0], err |-> NilError]

\* How many interfaces the call holds when QueryInterface fails.
newGroupAcquired(fails) ==
    CASE fails = "syncIO" -> 0
      [] fails = "asyncIO2" -> 1
      [] fails = "itemMgt" -> 2
      [] OTHER -> 3

\* Error branches that release the synchronous interface only.
newGroupReleasesSyncOnly(fails) ==
    [r \in GroupRefs |->
       IF fails \in {"asyncIO2", "itemMgt"} /\ r = "syncIO" THEN 1 ELSE 0]

\* The Release calls of the error branches: the branch of asyncIO2 releases
\* syncIO, the branch of itemMgt releases syncIO and asyncIO2.  The group
\* object handed in (groupStateMgt) is the caller's and is not released.
newGroupReleases(fails) ==
    [r \in GroupRefs |->
       CASE fails = "asyncIO2" /\ r = "syncIO" -> 1
         [] fails = "itemMgt" /\ r \in {"syncIO", "asyncIO2"} -> 1
         [] OTHER -> 0]

\* NewOPCGroup on the arguments g.args, with the QueryInterface that fails.
NewOPCGroup(fails) ==
    /\ g.call = NoNewGroup
    /\ \/ /\ g.args.iUnknown = "nil"
          /\ fails = "none"
          /\ g' = [g EXCEPT !.call = [NoNewGroup EXCEPT
                                        !.outcome = "error",
                                        !.err = NilInterface]]
       \/ /\ g.args.iUnknown # "nil"
          /\ LET n == newGroupAcquired(fails) IN
             g' = [g EXCEPT !.call =
                     [outcome |-> IF fails = "none" THEN "created" ELSE "error",
                      group |-> IF fails = "none"
                                THEN [clientGroupHandle |-> g.args.clientGroupHandle,
                                      serverGroupHandle |-> g.args.serverGroupHandle,
                                      groupName |-> g.args.groupName,
                                      revisedUpdateRate |-> g.args.revisedUpdateRate]
                                ELSE NilGroup,
                      acquired |-> {NewGroupRefs[i] : i \in 1..n},
                      released |-> newGroupReleases(fails),
                      err |-> IF fails = "none" THEN NilError
                              ELSE [wrapped |-> fails, cause |-> NilError]]]
    /\ UNCHANGED notGroup
    /\ UNCHANGED chan

\* The arguments OPCGroups.Add hands to NewOPCGroup.
NewGroupInit ==
    /\ \E u \in {"nil", "object"}, nm \in Names, rt \in Rates,
          h \in Handles, sh \in Handles :
          g = [args |-> [iUnknown |-> u, groupName |-> nm,
                         revisedUpdateRate |-> rt, clientGroupHandle |-> h,
                         serverGroupHandle |-> sh],
               call |-> NoNewGroup]
    /\ chan = Idle /\ srv = Idle /\ mut = Idle /\ its = Idle /\ io = Idle /\ conn = Idle

NewGroupNext == \E fails \in NewGroupFailures : NewOPCGroup(fails)

NewGroupSpec == NewGroupInit /\ [][NewGroupNext]_vars

\* ----------------------------------------------- nil and zero-value receivers
\* One public method: the guard it starts with ("nil": the receiver is nil,
\* "provider": the receiver or the provider field it uses is nil, "none"), the
\* kind of its result (void, accessor: no error in the result, fallible: an
\* error or an error list), what the branch of the guard returns (error,
\* zero, nothing, nil: a nil error or error list) and what the body gives on
\* a struct whose fields are all zero (remote: it calls the provider).
Method(recv, op, guard, kind, onGuard, body) ==
    [recv |-> recv, op |-> op, guard |-> guard, kind |-> kind,
     onGuard |-> onGuard, body |-> body]

OPCServerMethods == {
    Method("OPCServer", "GetLocaleID", "provider", "fallible", "error", "remote"),
    Method("OPCServer", "GetStartTime", "provider", "fallible", "error", "remote"),
    Method("OPCServer", "GetCurrentTime", "provider", "fallible", "error", "remote"),
    Method("OPCServer", "GetLastUpdateTime", "provider", "fallible", "error", "remote"),
    Method("OPCServer", "GetMajorVersion", "provider", "fallible", "error", "remote"),
    Method("OPCServer", "GetMinorVersion", "provider", "fallible", "error", "remote"),
    Method("OPCServer", "GetBuildNumber", "provider", "fallible", "error", "remote"),
    Method("OPCServer", "GetVendorInfo", "provider", "fallible", "error", "remote"),
    Method("OPCServer", "GetServerState", "provider", "fallible", "error", "remote"),
    Method("OPCServer", "SetLocaleID", "provider", "fallible", "error", "remote"),
    Method("OPCServer", "GetBandwidth", "provider", "fallible", "error", "remote"),
    Method("OPCServer", "GetOPCGroups", "nil", "accessor", "zero", "zero"),
    Method("OPCServer", "GetServerName", "nil", "accessor", "zero", "zero"),
    Method("OPCServer", "GetServerNode", "nil", "accessor", "zero", "zero"),
    Method("OPCServer", "GetClientName", "nil", "accessor", "zero", "zero"),
    Method("OPCServer", "SetClientName", "provider", "fallible", "error", "remote"),
    Method("OPCServer", "CreateBrowser", "provider", "fallible", "error", "remote"),
    Method("OPCServer", "GetErrorString", "provider", "fallible", "error", "remote"),
    Method("OPCServer", "QueryAvailableLocaleIDs", "provider", "fallible", "error", "remote"),
    Method("OPCServer", "QueryAvailableProperties", "provider", "fallible", "error", "remote"),
    Method("OPCServer", "GetItemProperties", "provider", "fallible", "error", "remote"),
    Method("OPCServer", "LookupItemIDs", "provider", "fallible", "error", "remote"),
    Method("OPCServer", "RegisterServerShutDown", "provider", "fallible", "error", "remote"),
    Method("OPCServer", "Disconnect", "nil", "fallible", "nil", "nil")}

OPCGroupMethods == {
    Method("OPCGroup", "GetParent", "nil", "accessor", "zero", "zero"),
    Method("OPCGroup", "GetName", "nil", "accessor", "zero", "zero"),
    Method("OPCGroup", "SetName", "provider", "fallible", "error", "remote"),
    Method("OPCGroup", "GetIsActive", "provider", "accessor", "zero", "remote"),
    Method("OPCGroup", "SetIsActive", "provider", "fallible", "error", "remote"),
    Method("OPCGroup", "GetClientHandle", "nil", "accessor", "zero", "zero"),
    Method("OPCGroup", "SetClientHandle", "provider", "fallible", "error", "remote"),
    Method("OPCGroup", "GetServerHandle", "nil", "accessor", "zero", "zero"),
    Method("OPCGroup", "GetLocaleID", "provider", "fallible", "error", "remote"),
    Method("OPCGroup", "SetLocaleID", "provider", "fallible", "error", "remote"),
    Method("OPCGroup", "GetTimeBias", "provider", "fallible", "error", "remote"),
    Method("OPCGroup", "SetTimeBias", "provider", "fallible", "error", "remote"),
    Method("OPCGroup", "GetDeadband", "provider", "fallible", "error", "remote"),
    Method("OPCGroup", "SetDeadband", "provider", "fallible", "error", "remote"),
    Method("OPCGroup", "GetUpdateRate", "provider", "fallible", "error", "remote"),
    Method("OPCGroup", "SetUpdateRate", "provider", "fallible", "error", "remote"),
    Method("OPCGroup", "OPCItems", "nil", "accessor", "zero", "zero"),
    Method("OPCGroup", "SyncRead", "provider", "fallible", "error", "remote"),
    Method("OPCGroup", "SyncWrite", "provider", "fallible", "error", "remote"),
    Method("OPCGroup", "Release", "nil", "void", "nothing", "nothing"),
    Method("OPCGroup", "RegisterDataChange", "nil", "fallible", "error", "error"),
    Method("OPCGroup", "RegisterReadComplete", "nil", "fallible", "error", "error"),
    Method("OPCGroup", "RegisterWriteComplete", "nil", "fallible", "error", "error"),
    Method("OPCGroup", "RegisterCancelComplete", "nil", "fallible", "error", "error"),
    Method("OPCGroup", "AsyncRead", "provider", "fallible", "error", "remote"),
    Method("OPCGroup", "AsyncWrite", "provider", "fallible", "error", "remote"),
    Method("OPCGroup", "AsyncRefresh", "provider", "fallible", "error", "remote"),
    Method("OPCGroup", "AsyncCancel", "provider", "fallible", "error", "remote")}

OPCItemsMethods == {
    Method("OPCItems", "GetParent", "nil", "accessor", "zero", "zero"),
    Method("OPCItems", "GetDefaultRequestedDataType", "nil", "accessor", "zero", "zero"),
    Method("OPCItems", "SetDefaultRequestedDataType", "nil", "void", "nothing", "nothing"),
    Method("OPCItems", "GetDefaultAccessPath", "nil", "accessor", "zero", "zero"),
    Method("OPCItems", "SetDefaultAccessPath", "nil", "void", "nothing", "nothing"),
    Method("OPCItems", "GetDefaultActive", "nil", "accessor", "zero", "zero"),
    Method("OPCItems", "SetDefaultActive", "nil", "void", "nothing", "nothing"),
    Method("OPCItems", "GetCount", "nil", "accessor", "zero", "zero"),
    Method("OPCItems", "Item", "nil", "fallible", "error", "error"),
    Method("OPCItems", "ItemByName", "nil", "fallible", "error", "error"),
    Method("OPCItems", "GetOPCItem", "nil", "fallible", "error", "error"),
    Method("OPCItems", "AddItem", "provider", "fallible", "error", "remote"),
    Method("OPCItems", "AddItems", "provider", "fallible", "error", "remote"),
    Method("OPCItems", "Remove", "nil", "void", "nothing", "nothing"),
    Method("OPCItems", "Validate", "provider", "fallible", "error", "remote"),
    Method("OPCItems", "SetActive", "nil", "fallible", "nil", "error"),
    Method("OPCItems", "SetClientHandles", "nil", "fallible", "nil", "error"),
    Method("OPCItems", "SetDataTypes", "nil", "fallible", "nil", "error"),
    Method("OPCItems", "Release", "nil", "void", "nothing", "nothing")}

OPCItemMethods == {
    Method("OPCItem", "GetParent", "nil", "accessor", "zero", "zero"),
    Method("OPCItem", "GetClientHandle", "nil", "accessor", "zero", "zero"),
    Method("OPCItem", "SetClientHandle", "provider", "fallible", "error", "remote"),
    Method("OPCItem", "GetServerHandle", "nil", "accessor", "zero", "zero"),
    Method("OPCItem", "GetAccessPath", "nil", "accessor", "zero", "zero"),
    Method("OPCItem", "GetAccessRights", "nil", "accessor", "zero", "zero"),
    Method("OPCItem", "GetItemID", "nil", "accessor", "zero", "zero"),
    Method("OPCItem", "GetIsActive", "nil", "accessor", "zero", "zero"),
    Method("OPCItem", "GetRequestedDataType", "nil", "accessor", "zero", "zero"),
    Method("OPCItem", "SetRequestedDataType", "provider", "fallible", "error", "remote"),
    Method("OPCItem", "SetIsActive", "provider", "fallible", "error", "remote"),
    Method("OPCItem", "GetValue", "nil", "accessor", "zero", "zero"),
    Method("OPCItem", "GetQuality", "nil", "accessor", "zero", "zero"),
    Method("OPCItem", "GetTimestamp", "nil", "accessor", "zero", "zero"),
    Method("OPCItem", "GetCanonicalDataType", "nil", "accessor", "zero", "zero"),
    Method("OPCItem", "GetEUType", "provider", "fallible", "error", "remote"),
    Method("OPCItem", "GetEUInfo", "nil", "fallible", "error", "error"),
    Method("OPCItem", "Read", "provider", "fallible", "error", "remote"),
    Method("OPCItem", "Write", "provider", "fallible", "error", "remote"),
    Method("OPCItem", "Release", "none", "void", "nothing", "nothing")}

OPCBrowserMethods == {
    Method("OPCBrowser", "GetFilter", "nil", "accessor", "zero", "zero"),
    Method("OPCBrowser", "SetFilter", "nil", "void", "nothing", "nothing"),
    Method("OPCBrowser", "GetDataType", "nil", "accessor", "zero", "zero"),
    Method("OPCBrowser", "SetDataType", "nil", "void", "nothing", "nothing"),
    Method("OPCBrowser", "GetAccessRights", "nil", "accessor", "zero", "zero"),
    Method("OPCBrowser", "SetAccessRights", "nil", "fallible", "error", "nil"),
    Method("OPCBrowser", "GetCurrentPosition", "provider", "fallible", "error", "remote"),
    Method("OPCBrowser", "GetOrganization", "provider", "fallible", "error", "remote"),
    Method("OPCBrowser", "GetCount", "nil", "accessor", "zero", "zero"),
    Method("OPCBrowser", "Item", "nil", "fallible", "error", "error"),
    Method("OPCBrowser", "ShowBranches", "provider", "fallible", "error", "remote"),
    Method("OPCBrowser", "ShowLeafs", "provider", "fallible", "error", "remote"),
    Method("OPCBrowser", "MoveUp", "provider", "fallible", "error", "remote"),
    Method("OPCBrowser", "MoveToRoot", "provider", "void", "nothing", "remote"),
    Method("OPCBrowser", "MoveDown", "provider", "fallible", "error", "remote"),
    Method("OPCBrowser", "MoveTo", "provider", "fallible", "error", "remote"),
    Method("OPCBrowser", "GetItemID", "provider", "fallible", "error", "remote"),
    Method("OPCBrowser", "Release", "provider", "void", "nothing", "remote")}

\* The two methods of the group collection that the nil-receiver test calls.
OPCGroupsMethods == {
    Method("OPCGroups", "GetCount", "nil", "accessor", "zero", "zero"),
    Method("OPCGroups", "Add", "provider", "fallible", "error", "remote")}

PublicMethods == OPCServerMethods \cup OPCGroupMethods \cup OPCItemsMethods \cup
                 OPCItemMethods \cup OPCBrowserMethods \cup OPCGroupsMethods

\* The receiver of the call: a nil pointer, a struct whose fields are all
\* zero, or an object a constructor built.
ReceiverStates == {"nil", "zero", "ready"}

NoNilCall == [recv |-> "none", op |-> "none", kind |-> "none",
              result |-> "none", remote |-> FALSE, fault |-> FALSE]

\* Whether the guard at the top of the method returns early.
guardHit(guard, state) ==
    CASE guard = "nil" -> state = "nil"
      [] guard = "provider" -> state \in {"nil", "zero"}
      [] OTHER -> FALSE

\* What a call gives: the branch of the guard, or the body.  A body that
\* runs on a nil receiver faults unless it is empty; a body that calls a nil
\* provider faults; on a built object the provider is called.
callOn(m, state) ==
    IF guardHit(m.guard, state)
    THEN [result |-> m.onGuard, remote |-> FALSE, fault |-> FALSE]
    ELSE IF state = "nil"
    THEN [result |-> IF m.guard = "none" THEN m.body ELSE "none",
          remote |-> FALSE, fault |-> m.guard # "none"]
    ELSE IF state = "zero"
    THEN [result |-> IF m.body = "remote" THEN "none" ELSE m.body,
          remote |-> FALSE, fault |-> m.body = "remote"]
    ELSE [result |-> "ok", remote |-> m.body = "remote", fault |-> FALSE]

\* A call of a public method on the receiver.
NilCall(m) ==
    /\ m.recv = "OPCGroups" => srv.state = "nil"
    /\ LET r == callOn(m, srv.state) IN
       srv' = [srv EXCEPT !.last = [recv |-> m.recv, op |-> m.op,
                                    kind |-> m.kind, result |-> r.result,
                                    remote |-> r.remote, fault |-> r.fault]]
    /\ UNCHANGED notServer

NilInit ==
    /\ \E s \in ReceiverStates : srv = [state |-> s, last |-> NoNilCall]
    /\ g = Idle /\ chan = Idle /\ mut = Idle /\ its = Idle /\ io = Idle /\ conn = Idle

NilNext == \E m \in PublicMethods : NilCall(m)

NilSpec == NilInit /\ [][NilNext]_vars

\* ------------------------------------------------------------ teardown order
\* The order in which one call of OPCGroup.Release or OPCServer.Disconnect
\* releases what the object holds.  srv = [session, groups, call, log]: log is
\* the sequence of releases of the most recent call.

MaxGroups == 2
MaxOwnedItems == 2

ProviderRefs == <<"groupStateMgt", "syncIO", "asyncIO2">>

SessionRefs == <<"iItemProperty", "iCommon", "iServer">>

Session == 0

Released(owner, what, k) == [owner |-> owner, what |-> what, k |-> k]

\* a group object: zero-value (every field nil) or built by NewOPCGroup
OwnedGroup(built, advised, n) ==
    [event |-> advised, cancel |-> advised, items |-> built, nItems |-> n,
     groupProvider |-> built]

OwnedGroups ==
    {OwnedGroup(FALSE, FALSE, 0)}
        \cup {OwnedGroup(TRUE, a, n) : a \in BOOLEAN, n \in 0..MaxOwnedItems}

\* a session object: zero-value or built by Connect, with or without the
\* shutdown subscription
OwnedSession(built, advised) ==
    [point |-> advised, container |-> advised, groups |-> built,
     provider |-> built]

OwnedSessions ==
    {OwnedSession(FALSE, FALSE)} \cup {OwnedSession(TRUE, a) : a \in BOOLEAN}

GroupLists == UNION {[1..n -> OwnedGroups] : n \in 0..MaxGroups}

\* OPCItems.Release: every item, then the item-management interface
itemsRelease(i, grp) ==
    [k \in 1..grp.nItems |-> Released(i, "item", k)]
        \o <<Released(i, "itemMgt", 0)>>

\* comGroupProvider.Release
groupProviderRelease(i) == [k \in 1..Len(ProviderRefs) |-> Released(i, ProviderRefs[k], 0)]

\* comServerProvider.Release
serverProviderRelease == [k \in 1..Len(SessionRefs) |-> Released(Session, SessionRefs[k], 0)]

unadviseRelease(i) ==
    <<Released(i, "unadvise", 0), Released(i, "point", 0), Released(i, "container", 0)>>

groupReleaseProviderFirst(i, grp) ==
    (IF grp.event THEN unadviseRelease(i) ELSE <<>>)
        \o (IF grp.cancel THEN <<Released(i, "cancel", 0)>> ELSE <<>>)
        \o (IF grp.groupProvider THEN groupProviderRelease(i) ELSE <<>>)
        \o (IF grp.items THEN itemsRelease(i, grp) ELSE <<>>)

\* OPCGroup.Release, as the sequence of its releases
groupRelease(i, grp) ==
    (IF grp.event THEN unadviseRelease(i) ELSE <<>>)
        \o (IF grp.cancel THEN <<Released(i, "cancel", 0)>> ELSE <<>>)
        \o (IF grp.items THEN itemsRelease(i, grp) ELSE <<>>)
        \o (IF grp.groupProvider THEN groupProviderRelease(i) ELSE <<>>)

\* the group after OPCGroup.Release: only event is cleared
groupReleased(grp) == [grp EXCEPT !.event = FALSE]

RECURSIVE groupsReleaseFrom(_, _)
groupsReleaseFrom(groups, i) ==
    IF i > Len(groups) THEN <<>>
    ELSE groupRelease(i, groups[i]) \o groupsReleaseFrom(groups, i + 1)

\* OPCGroups.Release: OPCGroup.Release on every group of the collection
groupsRelease(groups) == groupsReleaseFrom(groups, 1)

OrderGroupRelease(i) ==
    /\ i \in 1..Len(srv.groups)
    /\ srv' = [srv EXCEPT !.groups[i] = groupReleased(@),
                          !.call = [op |-> "Release", group |-> i],
                          !.log = groupRelease(i, srv.groups[i])]
    /\ UNCHANGED notServer

OrderDisconnect ==
    /\ srv' = [srv EXCEPT
            !.groups = IF srv.session.groups
                       THEN [i \in 1..Len(srv.groups) |-> groupReleased(srv.groups[i])]
                       ELSE @,
            !.call = [op |-> "Disconnect", group |-> Session],
            !.log = (IF srv.session.point
                     THEN <<Released(Session, "unadvise", 0), Released(Session, "point", 0)>>
                     ELSE <<>>)
                    \o (IF srv.session.container
                        THEN <<Released(Session, "container", 0)>> ELSE <<>>)
                    \o (IF srv.session.groups THEN groupsRelease(srv.groups) ELSE <<>>)
                    \o (IF srv.session.provider THEN serverProviderRelease ELSE <<>>)]
    /\ UNCHANGED notServer

OrderInit ==
    /\ \E s \in OwnedSessions, gs \in GroupLists :
        /\ s.groups \/ gs = <<>>
        /\ srv = [session |-> s, groups |-> gs,
                  call |-> [op |-> "none", group |-> Session], log |-> <<>>]
    /\ g = Idle /\ chan = Idle /\ mut = Idle /\ its = Idle /\ io = Idle /\ conn = Idle

OrderNext ==
    \/ \E i \in 1..MaxGroups : OrderGroupRelease(i)
    \/ OrderDisconnect

OrderSpec == OrderInit /\ [][OrderNext]_vars

\* ------------------------------------------- status translation of the events
\* What fireDataChange, fireReadComplete and fireWriteComplete make of the
\* raw callback data before they send it.  chan = [list]: the queue of one
\* subscriber; an element of list is the event sent, with the raw data the
\* dispatch loop took from its internal queue and made it from.

MaxErrors == 2

EventKinds == {"data", "read", "write"}

RawErrorLists == UNION {[1..n -> Statuses] : n \in 0..MaxErrors}

\* CDataChangeCallBackData, CReadCompleteCallBackData, CWriteCompleteCallBackData
CCallBackData(kind, master, errs) ==
    [kind |-> kind, MasterErr |-> master, Errors |-> errs]

masterErrorNonPositive(e) == IF e <= 0 THEN getError(e) ELSE NilError

\* masterError := error(nil); if cbData.MasterErr < 0 { masterError = g.getError(..) }
masterError(e) == IF e < 0 THEN getError(e) ELSE NilError

\* itemErrors := make([]error, len(cbData.Errors)) and the loop filling it
itemErrors(errs) ==
    [i \in 1..Len(errs) |-> IF errs[i] < 0 THEN getError(errs[i]) ELSE NilError]

DataChangeCallBackData(cbData) ==
    [kind |-> "data", MasterErr |-> masterError(cbData.MasterErr),
     Errors |-> itemErrors(cbData.Errors), from |-> cbData]

ReadCompleteCallBackData(cbData) ==
    [kind |-> "read", MasterErr |-> masterError(cbData.MasterErr),
     Errors |-> itemErrors(cbData.Errors), from |-> cbData]

WriteCompleteCallBackData(cbData) ==
    [kind |-> "write", MasterErr |-> masterError(cbData.MasterErr),
     Errors |-> itemErrors(cbData.Errors), from |-> cbData]

\* select { case backData <- data: default: } on the subscriber's queue, a
\* channel with room for one event
trySendEvent(list, data) == IF list = <<>> THEN <<data>> ELSE list

\* case cbData := <-dataChangeCB: g.fireDataChange(cbData)
EventFireDataChange(cbData) ==
    /\ cbData.kind = "data"
    /\ chan' = [chan EXCEPT !.list = trySendEvent(@, DataChangeCallBackData(cbData))]
    /\ UNCHANGED <<g, notGroup>>

\* case cbData := <-readCB: g.fireReadComplete(cbData)
EventFireReadComplete(cbData) ==
    /\ cbData.kind = "read"
    /\ chan' = [chan EXCEPT !.list = trySendEvent(@, ReadCompleteCallBackData(cbData))]
    /\ UNCHANGED <<g, notGroup>>

\* case cbData := <-writeCB: g.fireWriteComplete(cbData)
EventFireWriteComplete(cbData) ==
    /\ cbData.kind = "write"
    /\ chan' = [chan EXCEPT !.list = trySendEvent(@, WriteCompleteCallBackData(cbData))]
    /\ UNCHANGED <<g, notGroup>>

\* the subscriber receives from its queue
EventReceive ==
    /\ chan.list # <<>>
    /\ chan' = [chan EXCEPT !.list = Tail(@)]
    /\ UNCHANGED <<g, notGroup>>

RawCallBacks(kind) ==
    {CCallBackData(kind, m, es) : m \in Statuses, es \in RawErrorLists}

EventInit ==
    /\ chan = [list |-> <<>>]
    /\ g = Idle /\ srv = Idle /\ mut = Idle /\ its = Idle /\ io = Idle /\ conn = Idle

EventNext ==
    \/ \E cbData \in RawCallBacks("data") : EventFireDataChange(cbData)
    \/ \E cbData \in RawCallBacks("read") : EventFireReadComplete(cbData)
    \/ \E cbData \in RawCallBacks("write") : EventFireWriteComplete(cbData)
    \/ EventReceive

EventSpec == EventInit /\ [][EventNext]_vars

\* ------------------------------------- RegisterServerShutDown, concurrently
\* RegisterServerShutDown takes no lock: between its test of s.event, its
\* remote calls and its assignments other calls can run.  srv = [s, thr]: the
\* OPCServer and, for each calling thread, where it is in the function and
\* the attempt it made.

IdleCaller == [pc |-> "idle", n |-> 0]

\* if s.event == nil
ShutDownTest(t) ==
    /\ srv.thr[t].pc = "idle"
    /\ srv.s.nRegister < MaxShutRegister
    /\ IF srv.s.event = 0
       THEN /\ srv.s.nAtt + Cardinality({u \in Threads : srv.thr[u].pc = "remote"})
                   < MaxShutAdvise
            /\ srv' = [srv EXCEPT !.s.nRegister = @ + 1, !.thr[t].pc = "remote"]
       ELSE srv' = [srv EXCEPT !.s.nRegister = @ + 1, !.thr[t].pc = "add"]
    /\ UNCHANGED notServer

\* QueryInterface, FindConnectionPoint, Advise and the deferred releases
ShutDownAdvise(t, outcome) ==
    /\ srv.thr[t].pc = "remote"
    /\ LET n == srv.s.nAtt + 1 IN
       srv' = [srv EXCEPT !.s.nAtt = n,
                          !.s.att[n] = shutdownAdviseRemote(outcome),
                          !.s.err = IF outcome = "ok" THEN @ ELSE outcome,
                          !.thr[t] = IF outcome = "ok"
                                     THEN [pc |-> "store", n |-> n]
                                     ELSE IdleCaller]
    /\ UNCHANGED notServer

\* s.container = container ... s.cookie = cookie
ShutDownStore(t) ==
    /\ srv.thr[t].pc = "store"
    /\ LET n == srv.thr[t].n IN
       srv' = [srv EXCEPT !.s.container = n, !.s.point = n, !.s.event = n,
                          !.s.cookie = n, !.thr[t].pc = "add"]
    /\ UNCHANGED notServer

\* s.event.AddReceiver(ch); return nil
ShutDownAddReceiver(t) ==
    /\ srv.thr[t].pc = "add"
    /\ srv' = [srv EXCEPT !.s.receivers = @ + 1, !.s.err = "nil",
                          !.thr[t] = IdleCaller]
    /\ UNCHANGED notServer

ShutConcInit ==
    /\ srv = [s |-> OPCServer(TRUE, TRUE), thr |-> [t \in Threads |-> IdleCaller]]
    /\ g = Idle /\ chan = Idle /\ mut = Idle /\ its = Idle /\ io = Idle /\ conn = Idle

ShutConcNext ==
    \E t \in Threads :
        \/ ShutDownTest(t)
        \/ \E o \in AdviseOutcomes : ShutDownAdvise(t, o)
        \/ ShutDownStore(t)
        \/ ShutDownAddReceiver(t)

ShutConcSpec == ShutConcInit /\ [][ShutConcNext]_vars

\* ------------------------------- client handles, AddItems beside Validate
\* AddItems mints its client handles in createDefinitions with the write lock
\* held; Validate mints its own in the same way and takes no lock, so the
\* increments of is.itemID of the two interleave.  The counter is a uint32;
\* the model gives it HandleWidth bits.  its = [itemID, items, minted, thr]:
\* minted counts the increments made, thr is the call each goroutine is in.

HandleWidth == 2

HandleModulus == 2 ^ HandleWidth

\* increments of is.itemID the model follows: one more than the counter has values
MaxMints == HandleModulus + 1

Callers == {"AddItems", "Validate"}

MintCounts == 1..MaxTags

NoMintCall == [pc |-> "idle", todo |-> 0, defs |-> <<>>, call |-> 0]

\* an increment that returns the counter as it was
mintHandleStale(itemID) == itemID

\* atomic.AddUint32(&is.itemID, 1)
mintHandle(itemID) == (itemID + 1) % HandleModulus

mintsAhead == its.minted + its.thr["AddItems"].todo + its.thr["Validate"].todo

\* AddItems up to createDefinitions: is.Lock(); one goroutine stands for the
\* callers of AddItems, which the lock lets in one at a time
MintAddItemsStart(n) ==
    /\ its.thr["AddItems"].pc = "idle"
    /\ mintsAhead + n <= MaxMints
    /\ its' = [its EXCEPT !.thr["AddItems"] =
                  [pc |-> "mint", todo |-> n, defs |-> <<>>, call |-> @.call + 1]]
    /\ UNCHANGED notItems

\* Validate up to its loop over tags
MintValidateStart(n) ==
    /\ its.thr["Validate"].pc = "idle"
    /\ mintsAhead + n <= MaxMints
    /\ its' = [its EXCEPT !.thr["Validate"] =
                  [pc |-> "mint", todo |-> n, defs |-> <<>>, call |-> @.call + 1]]
    /\ UNCHANGED notItems

\* one turn of the loop over tags: cHandle := atomic.AddUint32(&is.itemID, 1)
\* and the definition with HClient: cHandle
MintDefinition(c) ==
    /\ its.thr[c].pc = "mint"
    /\ LET cHandle == mintHandle(its.itemID) IN
       its' = [its EXCEPT !.itemID = cHandle,
                          !.minted = @ + 1,
                          !.thr[c].defs = Append(@, cHandle),
                          !.thr[c].todo = @ - 1,
                          !.thr[c].pc = IF its.thr[c].todo = 1 THEN "remote" ELSE "mint"]
    /\ UNCHANGED notItems

\* AddItems from the remote call on: an item with items[j].HClient for every
\* definition the server accepted, appended to is.items; the deferred Unlock
MintAddItemsFinish(callFails, errs) ==
    /\ its.thr["AddItems"].pc = "remote"
    /\ Len(errs) = Len(its.thr["AddItems"].defs)
    /\ callFails => \A j \in 1..Len(errs) : errs[j] = 0
    /\ LET defs == its.thr["AddItems"].defs
           opcItems == [j \in 1..Len(defs) |->
                          IF addFailed(errs[j]) THEN NilItem
                          ELSE [clientHandle |-> defs[j],
                                call |-> its.thr["AddItems"].call]]
       IN  its' = [its EXCEPT
                     !.items = IF callFails THEN @ ELSE appendAdded(@, opcItems),
                     !.thr["AddItems"] = [NoMintCall EXCEPT !.call = its.thr["AddItems"].call]]
    /\ UNCHANGED notItems

\* Validate from the remote call on: nothing is retained
MintValidateFinish ==
    /\ its.thr["Validate"].pc = "remote"
    /\ its' = [its EXCEPT
                 !.thr["Validate"] = [NoMintCall EXCEPT !.call = its.thr["Validate"].call]]
    /\ UNCHANGED notItems

MintStatusLists == UNION {[1..n -> {-1, 0}] : n \in MintCounts}

MintInit ==
    /\ its = [itemID |-> 0, items |-> <<>>, minted |-> 0,
              thr |-> [c \in Callers |-> NoMintCall]]
    /\ g = Idle /\ chan = Idle /\ srv = Idle /\ mut = Idle /\ io = Idle /\ conn = Idle

MintNext ==
    \/ \E n \in MintCounts : MintAddItemsStart(n)
    \/ \E n \in MintCounts : MintValidateStart(n)
    \/ \E c \in Callers : MintDefinition(c)
    \/ \E f \in BOOLEAN, errs \in MintStatusLists : MintAddItemsFinish(f, errs)
    \/ MintValidateFinish

MintSpec == MintInit /\ [][MintNext]_vars

\* ------------------------------------- the collection's lock and remote calls
\* OPCItems embeds a sync.RWMutex.  AddItems and Remove take it for writing
\* and make their remote call before the deferred Unlock; GetCount, Item and
\* GetOPCItem take it for reading.  its = [n, lock, readers, w, r]: n is
\* len(is.items), lock is TRUE while the write lock is held, readers counts
\* the read locks held, w is the goroutine in AddItems or Remove and r the
\* one in a reading method.

WriteOps == {"AddItems", "Remove"}

ReadOps == {"GetCount", "Item", "GetOPCItem"}

IdleLocker == [pc |-> "idle", op |-> "none", k |-> 0]

\* is.Lock(): waits for the readers to leave
LockWrite(op, k) ==
    /\ its.w.pc = "idle"
    /\ ~its.lock /\ its.readers = 0
    /\ (op = "AddItems" => its.n + k <= MaxTags)
    /\ (op = "Remove" => k <= its.n)
    /\ its' = [its EXCEPT !.lock = TRUE, !.w = [pc |-> "locked", op |-> op, k |-> k]]
    /\ UNCHANGED notItems

\* is.itemMgtProvider.AddItems(items) is called; Remove calls RemoveItems only
\* when it found a handle, after it has taken the items off the list
LockRemoteCall ==
    /\ its.w.pc = "locked"
    /\ IF its.w.op = "Remove"
       THEN its' = [its EXCEPT !.n = @ - its.w.k,
                               !.w.pc = IF its.w.k > 0 THEN "remote" ELSE "unlock"]
       ELSE its' = [its EXCEPT !.w.pc = "remote"]
    /\ UNCHANGED notItems

\* the remote call returns; AddItems appends when the call succeeded
LockRemoteReturn(callFails) ==
    /\ its.w.pc = "remote"
    /\ its' = [its EXCEPT !.n = IF its.w.op = "AddItems" /\ ~callFails
                                THEN @ + its.w.k ELSE @,
                          !.w.pc = "unlock"]
    /\ UNCHANGED notItems

\* the deferred is.Unlock()
LockUnlock ==
    /\ its.w.pc = "unlock"
    /\ its' = [its EXCEPT !.lock = FALSE, !.w = IdleLocker]
    /\ UNCHANGED notItems

\* is.RLock(): taken when no writer holds the lock, else the caller waits
LockRead(op) ==
    /\ its.r.pc \in {"idle", "waiting"}
    /\ its.r.pc = "waiting" => its.r.op = op
    /\ IF its.lock
       THEN its' = [its EXCEPT !.r = [pc |-> "waiting", op |-> op, k |-> 0]]
       ELSE its' = [its EXCEPT !.readers = @ + 1,
                               !.r = [pc |-> "reading", op |-> op, k |-> its.n]]
    /\ UNCHANGED notItems

\* the deferred is.RUnlock() and the return; r keeps what the call returned
LockReadUnlock ==
    /\ its.r.pc = "reading"
    /\ its' = [its EXCEPT !.readers = @ - 1, !.r.pc = "idle"]
    /\ UNCHANGED notItems

LockInit ==
    /\ its = [n |-> 0, lock |-> FALSE, readers |-> 0, w |-> IdleLocker, r |-> IdleLocker]
    /\ g = Idle /\ chan = Idle /\ srv = Idle /\ mut = Idle /\ io = Idle /\ conn = Idle

LockNext ==
    \/ \E op \in WriteOps, k \in 0..MaxTags : LockWrite(op, k)
    \/ LockRemoteCall
    \/ \E f \in BOOLEAN : LockRemoteReturn(f)
    \/ LockUnlock
    \/ \E op \in ReadOps : LockRead(op)
    \/ LockReadUnlock

LockSpec == LockInit /\ [][LockNext]_vars

\* ------------------------------------------- Release beside a Register* call
\* Release takes no lock: it runs between the steps of a Register* call of
\* another thread.  RaceSpec starts Release only while such a call is in
\* progress; every remote call succeeds.

RegisterInProgress ==
    \E u \in DOMAIN g.thr : g.thr[u].pc \in {"advised", "append", "appendW"}

RaceRelease(t) == RegisterInProgress /\ ReleaseUnadvise(t)

RaceInit == g = OPCGroup(Threads) /\ chan = NoChans /\ OthersIdleG

RaceNext ==
    \/ \E t \in DOMAIN g.thr : RegisterDataChange(t, "d1", "ok")
    \/ \E t \in DOMAIN g.thr : AdviseFinish(t)
    \/ \E t \in DOMAIN g.thr : AppendRead(t)
    \/ \E t \in DOMAIN g.thr : AppendWrite(t)
    \/ \E t \in DOMAIN g.thr : RaceRelease(t)
    \/ \E t \in DOMAIN g.thr : ReleaseCancel(t)
    \/ \E t \in DOMAIN g.thr : ReleaseProviders(t)
    \/ \E n \in Attempts : LoopReturn(n)

RaceSpec == RaceInit /\ [][RaceNext]_vars

\* ------------------------------------------------- a group's contexts
\* The life of a group as far as the contexts of its dispatch loops go: one
\* application thread registers queues and releases the group; the server
\* sends no event.

LifeInit == g = OPCGroup({1}) /\ chan = NoChans /\ OthersIdleG

LifeNext ==
    \/ \E t \in DOMAIN g.thr, c \in TeardownChans, o \in AdviseOutcomes :
          RegisterDataChange(t, c, o)
    \/ \E t \in DOMAIN g.thr, c \in TeardownChans, o \in AdviseOutcomes :
          RegisterCancelComplete(t, c, o)
    \/ \E t \in DOMAIN g.thr : AdviseFinish(t)
    \/ \E t \in DOMAIN g.thr : AppendRead(t)
    \/ \E t \in DOMAIN g.thr : AppendWrite(t)
    \/ \E t \in DOMAIN g.thr : ReleaseUnadvise(t)
    \/ \E t \in DOMAIN g.thr : ReleaseCancel(t)
    \/ \E t \in DOMAIN g.thr : ReleaseProviders(t)
    \/ \E n \in Attempts : LoopReturn(n)

LifeSpec == LifeInit /\ [][LifeNext]_vars

\* ------------------------------------------------------------- OPCBrowser
\* The browser walks the address space of its provider.  BrowseSpec keeps the
\* browser in srv: the provider, the provider's position, the call in
\* progress (op, pc), the branches MoveTo has still to go down, and the error
\* of the last provider call (err) and of the last call of the browser (ret).
Providers == {"mock", "server"}
Branches == {"Folder1", "Folder2", "SubFolder1"}
BranchLists == UNION {[1..n -> Branches] : n \in 0..MaxBranches}
NilErr == "nil"

OPCBrowser(provider) ==
    [provider |-> provider, currentPath |-> "", op |-> "none", pc |-> "idle",
     branches |-> <<>>, err |-> NilErr, ret |-> NilErr]

\* mockBrowserAddressSpace.ChangeBrowsePosition: the position after the call
\* and its error.  Moving up from the root succeeds and stays at the root.
mockChangeBrowsePosition(currentPath, dir, name) ==
    IF dir = "OPC_BROWSE_UP"
    THEN [path |-> IF currentPath = "SubFolder1" THEN "Folder1" ELSE "",
          err |-> NilErr]
    ELSE IF currentPath = "" /\ name \in {"Folder1", "Folder2"}
         THEN [path |-> name, err |-> NilErr]
         ELSE IF currentPath = "Folder1" /\ name = "SubFolder1"
              THEN [path |-> name, err |-> NilErr]
              ELSE [path |-> currentPath, err |-> "branch not found"]

\* IOPCBrowseServerAddressSpace.ChangeBrowsePosition on a server with the same
\* tree that answers a move up from the root with a failure HRESULT.
serverChangeBrowsePosition(currentPath, dir, name) ==
    IF dir = "OPC_BROWSE_UP" /\ currentPath = ""
    THEN [path |-> "", err |-> "E_FAIL"]
    ELSE mockChangeBrowsePosition(currentPath, dir, name)

ChangeBrowsePosition(dir, name) ==
    IF srv.provider = "mock"
    THEN mockChangeBrowsePosition(srv.currentPath, dir, name)
    ELSE serverChangeBrowsePosition(srv.currentPath, dir, name)

\* MoveUp: return b.provider.ChangeBrowsePosition(OPC_BROWSE_UP, "")
MoveUp ==
    /\ srv.pc = "idle"
    /\ LET r == ChangeBrowsePosition("OPC_BROWSE_UP", "")
       IN srv' = [srv EXCEPT !.op = "MoveUp", !.currentPath = r.path,
                             !.branches = <<>>, !.err = r.err, !.ret = r.err]
    /\ UNCHANGED notServer

\* MoveDown: return b.provider.ChangeBrowsePosition(OPC_BROWSE_DOWN, name)
MoveDown(name) ==
    /\ srv.pc = "idle"
    /\ LET r == ChangeBrowsePosition("OPC_BROWSE_DOWN", name)
       IN srv' = [srv EXCEPT !.op = "MoveDown", !.currentPath = r.path,
                             !.branches = <<>>, !.err = r.err, !.ret = r.err]
    /\ UNCHANGED notServer

\* MoveToRoot is called and reaches its for loop.
MoveToRoot ==
    /\ srv.pc = "idle"
    /\ srv' = [srv EXCEPT !.op = "MoveToRoot", !.pc = "for", !.branches = <<>>,
                          !.err = NilErr, !.ret = NilErr]
    /\ UNCHANGED notServer

\* MoveTo is called and calls b.MoveToRoot().
MoveTo(branches) ==
    /\ srv.pc = "idle"
    /\ srv' = [srv EXCEPT !.op = "MoveTo", !.pc = "for", !.branches = branches,
                          !.err = NilErr, !.ret = NilErr]
    /\ UNCHANGED notServer

\* for { err := b.provider.ChangeBrowsePosition(OPC_BROWSE_UP, "")
MoveToRootCall ==
    /\ srv.pc = "for"
    /\ LET r == ChangeBrowsePosition("OPC_BROWSE_UP", "")
       IN srv' = [srv EXCEPT !.pc = "if", !.currentPath = r.path, !.err = r.err]
    /\ UNCHANGED notServer

\* if err != nil { break } }: the loop ends at the first error, and goes
\* round again after a call that reported none.
MoveToRootTest ==
    /\ srv.pc = "if"
    /\ srv' = IF srv.err # NilErr
              THEN IF srv.op = "MoveTo"
                   THEN [srv EXCEPT !.pc = "range", !.err = NilErr]
                   ELSE [srv EXCEPT !.pc = "idle", !.err = NilErr]
              ELSE [srv EXCEPT !.pc = "for"]
    /\ UNCHANGED notServer

\* for _, branch := range branches { err := b.MoveDown(branch); if err != nil
\* { return err } }; return nil
MoveToDown ==
    /\ srv.pc = "range"
    /\ IF srv.branches = <<>>
       THEN srv' = [srv EXCEPT !.pc = "idle", !.ret = NilErr]
       ELSE LET r == ChangeBrowsePosition("OPC_BROWSE_DOWN", Head(srv.branches))
            IN srv' = IF r.err # NilErr
                      THEN [srv EXCEPT !.pc = "idle", !.err = r.err, !.ret = r.err]
                      ELSE [srv EXCEPT !.currentPath = r.path,
                                       !.branches = Tail(@)]
    /\ UNCHANGED notServer

BrowseInit ==
    /\ \E p \in Providers : srv = OPCBrowser(p)
    /\ g = Idle /\ chan = Idle /\ mut = Idle /\ its = Idle /\ io = Idle /\ conn = Idle

BrowseNext ==
    \/ MoveUp
    \/ \E name \in Branches : MoveDown(name)
    \/ MoveToRoot
    \/ \E branches \in BranchLists : MoveTo(branches)
    \/ MoveToRootCall
    \/ MoveToRootTest
    \/ MoveToDown

BrowseSpec == BrowseInit /\ [][BrowseNext]_vars

\* The thread inside MoveToRoot or MoveTo runs on; nothing makes the
\* application call the browser.
BrowseFairness == WF_vars(MoveToRootCall \/ MoveToRootTest \/ MoveToDown)
BrowseFairSpec == BrowseSpec /\ BrowseFairness

\* ================================================================== claims

\* C1: for every event kind, the dispatch loop never waits on a subscriber
\* queue that is full: a fan-out that meets a full queue drops the event for
\* that queue and goes on.
C1_NeverWaitsOnFullQueue ==
    \A n \in Attempts : g.att[n].pc = "send" => CanSend(n)

\* C2: when the loop dequeues a raw event of kind k, every queue registered for
\* k that has room takes the event, whatever the state of the other queues.
C2_EveryQueueWithRoomTakesEvent ==
    [][\A n \in Attempts, k \in Kinds :
         (/\ g.att[n].pc = "select"
          /\ g.att[n].raw[k] # <<>>
          /\ g'.att[n].raw[k] = Tail(g.att[n].raw[k]))
         => \A i \in 1..Len(g.lists[k]) :
               LET c == g.lists[k][i] IN
               ~Full(chan, c) =>
                  /\ chan'[c] # <<>>
                  /\ chan'[c][Len(chan'[c])] = Head(g.att[n].raw[k])]_vars

\* C3: once Release has unadvised the subscription of an advised group, the
\* dispatch loop of that subscription eventually returns.
C3_LoopReturnsAfterRelease ==
    \A n \in Attempts : (g.att[n].unadv > 0) ~> (g.att[n].pc = "done")

\* C4: however often Release is called, each reference of the group is
\* released at most once: the group's own interfaces, the item-management
\* interface, the connection point and its container.
C4_EachReferenceReleasedOnce ==
    /\ \A r \in GroupRefs : g.rel[r] <= 1
    /\ \A n \in Attempts : /\ g.att[n].ptRel <= g.att[n].ptAcq
                           /\ g.att[n].conRel <= g.att[n].conAcq
                           /\ g.att[n].unadv <= g.att[n].adv


AdviseCalls == Cardinality({n \in Attempts : g.att[n].advCall = 1})
AdviseSuccesses == Cardinality({n \in Attempts : g.att[n].adv = 1})
LoopsStarted == Cardinality({n \in Attempts : g.att[n].pc # "none"})

\* C6 as stated: on a group that is not released, the remote Advise is called
\* at most once and at most one dispatch loop is started, whatever Register*
\* calls are made and however they interleave.
C6_AdviseCalledAtMostOnce ==
    AdviseCalls <= 1 /\ LoopsStarted <= 1

\* C6 as amended: the remote Advise succeeds at most once, at most one
\* dispatch loop is started, and no registration makes a remote call once an
\* Advise has succeeded (a later registration reuses the subscription).
C6_AdviseSucceedsAtMostOnce ==
    /\ AdviseSuccesses <= 1
    /\ LoopsStarted <= 1
    /\ \A n \in Attempts : g.att[n].adv = 1 => g.nAtt = n

\* Two threads are inside Register* at once, both past advise, on one
\* subscription.
C6_Witness ==
    /\ AdviseSuccesses = 1
    /\ \E t, u \in DOMAIN g.thr :
          /\ t # u
          /\ g.thr[t].pc \in {"append", "appendW"}
          /\ g.thr[u].pc \in {"append", "appendW"}


\* C5: calling Disconnect twice, or on a Session that lacks provider or group
\* collection, releases the shutdown connection point, its container and
\* each server interface at most once in total, and never unadvises more
\* often than it advised.
C5_DisconnectReleasesOnce ==
    /\ \A r \in ServerRefs : srv.rel[r] <= 1
    /\ \A n \in ShutAttempts :
          /\ srv.att[n].ptRel <= srv.att[n].ptAcq
          /\ srv.att[n].conRel <= srv.att[n].conAcq
          /\ srv.att[n].unadv <= srv.att[n].adv


\* C7: after SetName(n) the cached group name, which GetName returns, is the
\* one it was before when the remote rename failed and is n when it
\* succeeded; no other cached field changes.
C7_SetNameRemoteFirst ==
    mut.last.op = "SetName" =>
        /\ GetName = (IF mut.last.err THEN mut.pre.groupName ELSE mut.last.arg)
        /\ \A f \in LocalFields \ {"groupName"} : mut.local[f] = mut.pre[f]

\* A rename to a different name has failed remotely.
C7_Witness ==
    /\ mut.last.op = "SetName"
    /\ mut.last.err
    /\ mut.last.arg # mut.pre.groupName

\* C8: after SetUpdateRate(r) the cached update rate is the revised rate the
\* remote call returned when the call succeeded, and is unchanged when it
\* failed.
C8_CachedRateIsRevisedRate ==
    mut.last.op = "SetUpdateRate" =>
        mut.local.revisedUpdateRate =
            (IF mut.last.err THEN mut.pre.revisedUpdateRate ELSE mut.last.revised)

\* C9: after SetClientHandle, SetRequestedDataType or SetIsActive the item's
\* field holds the requested value when the remote call returned no error
\* and a non-negative status for the item, and holds its former value
\* otherwise; no other cached field changes.
C9_ItemMutatorRemoteFirst ==
    mut.last.op \in ItemMutators =>
        LET f == MutatedField(mut.last.op) IN
        /\ mut.local[f] = (IF ~mut.last.err /\ mut.last.status >= 0
                           THEN mut.last.arg ELSE mut.pre[f])
        /\ \A x \in LocalFields \ {f} : mut.local[x] = mut.pre[x]

\* The remote call returned no call-level error but a negative status for the
\* item, on a request for a value other than the cached one.
C9_Witness ==
    /\ mut.last.op \in ItemMutators
    /\ ~mut.last.err
    /\ mut.last.status < 0
    /\ mut.last.arg # mut.pre[MutatedField(mut.last.op)]


\* C10: when the batch call of AddItems over N tags returns no call-level
\* error, the item list and the error list it returns have N entries each,
\* and at every index the error is nil and the item is non-nil exactly when
\* the status of that element is non-negative, whatever the other statuses.
C10_AddItemsPerElementResults ==
    its.last.outcome = "ok" =>
        LET N == Len(its.last.tags) IN
        /\ Len(its.last.opcItems) = N
        /\ Len(its.last.resultErrors) = N
        /\ \A i \in 1..N :
              /\ (its.last.resultErrors[i] = NilError) <=> (its.last.errs[i] >= 0)
              /\ (its.last.opcItems[i] # NilItem) <=> (its.last.errs[i] >= 0)

\* A batch of two tags whose first element failed and whose second was
\* accepted with status 0.
C10_Witness ==
    /\ its.last.outcome = "ok"
    /\ Len(its.last.tags) = 2
    /\ its.last.errs[1] < 0
    /\ its.last.errs[2] = 0


\* C11: an AddItems call whose batch call returned no error leaves the
\* collection holding its previous items in their previous order, followed by
\* one new item, in tag order, for each tag whose status is non-negative, and
\* nothing for a tag whose status is negative.
C11_AddItemsAppendsAccepted ==
    [][\A tags \in TagLists, errs \in StatusLists :
         (tags # <<>> /\ AddItems(tags, FALSE, errs)) =>
            LET old == its.items
                new == its'.items
                ok == {j \in 1..Len(tags) : errs[j] >= 0}
                pos(j) == Len(old) + Cardinality({k \in ok : k <= j})
            IN  /\ Len(new) = Len(old) + Cardinality(ok)
                /\ \A i \in 1..Len(old) : new[i] = old[i]
                /\ \A j \in ok : /\ new[pos(j)].tag = tags[j]
                                 /\ new[pos(j)].clientHandle = its.itemID + j]_vars

\* A call has added an item behind an earlier one and has left out a tag with
\* a negative status.
C11_Witness ==
    /\ its.last.outcome = "ok"
    /\ \E i, j \in 1..Len(its.last.errs) : its.last.errs[i] < 0 /\ its.last.errs[j] >= 0
    /\ Len(its.items) > Cardinality({j \in 1..Len(its.last.errs) : its.last.errs[j] >= 0})


SyncResultsPerElement ==
    io.err = "nil" =>
        /\ Len(io.resultErrs) = Len(io.serverHandles)
        /\ \A i \in 1..Len(io.serverHandles) :
              IF io.errList[i] < 0
              THEN io.resultErrs[i] = getError(io.errList[i])
              ELSE io.resultErrs[i] = NilError

C13_ValidateKeepsCollection ==
    [][\A tags \in TagLists, f \in BOOLEAN, errs \in StatusLists :
         Validate(tags, f, errs) => its'.items = its.items]_vars

\* Validate has returned statuses, one of them non-negative, on a collection
\* that holds an item.
C13_Witness ==
    /\ its.last.outcome = "validated"
    /\ \E j \in 1..Len(its.last.errs) : its.last.errs[j] >= 0
    /\ its.items # <<>>


HandlesOf(items) == {items[i].serverHandle : i \in 1..Len(items)}

\* C14: once Remove is past its remote step, RemoveItems has been called with
\* exactly the requested handles that were in the collection, each once, and
\* has not been called at all when none of them was; a requested handle that
\* was not in the collection is never sent.
C14_RemoveSendsFoundHandles ==
    its.rm.pc \in {"release", "returned"} =>
        LET found == Range(its.rm.serverHandles) \cap HandlesOf(its.rm.before) IN
        IF found = {}
        THEN ~its.rm.called
        ELSE /\ its.rm.called
             /\ Range(its.rm.sent) = found
             /\ Len(its.rm.sent) = Cardinality(found)

\* A Remove that asked for one handle of the collection and one that is not in
\* it has made its remote call.
C14_Witness ==
    /\ its.rm.called
    /\ \E h \in Range(its.rm.serverHandles) : h \in HandlesOf(its.rm.before)
    /\ \E h \in Range(its.rm.serverHandles) : h \notin HandlesOf(its.rm.before)

\* C15: when Remove is about to issue the remote removal the requested items
\* have already left the list; Release is called on the removed items only
\* after the remote step, whether the remote call failed or not; and when
\* Remove has returned the list holds none of the requested handles and every
\* other item in its previous order.
C15_RemoveDeletesThenCallsThenReleases ==
    LET requested(item) == item.serverHandle \in Range(its.rm.serverHandles)
        other(item) == ~requested(item)
        deleted == its.items = SelectSeq(its.rm.before, other)
    IN  /\ its.rm.pc = "remote" => deleted /\ ~its.rm.called /\ ~its.rm.released
        /\ its.rm.pc = "release" => deleted /\ ~its.rm.released
        /\ its.rm.pc = "returned" =>
              /\ deleted
              /\ its.rm.released
              /\ HandlesOf(its.items) \cap Range(its.rm.serverHandles) = {}
              /\ its.rm.removedItems = SelectSeq(its.rm.before, requested)

\* Remove has returned after a remote removal that failed, with another item
\* left in the list.
C15_Witness ==
    /\ its.rm.pc = "returned"
    /\ its.rm.called
    /\ its.rm.failed
    /\ its.rm.released
    /\ its.items # <<>>

\* C16: a batch mutator call over N handles and N values returns N entries;
\* the entry of an index is the lookup error exactly when its handle is not
\* in the collection, and the error of the item's mutator otherwise; every
\* item holds the value of the last index that named it and whose mutator
\* succeeded, whatever handles before or after it were not found, and nothing
\* else of the collection changes.
BatchApplied(b, k) ==
    {i \in 1..Len(b.serverHandles) :
        /\ GetOPCItem(b.before, b.serverHandles[i]) = k
        /\ mutatorError(b.outs[i]) = NilError}

BatchMax(S) == CHOOSE i \in S : \A j \in S : j <= i

C17_CacheChangesOnlyBySuccessfulRead ==
    [][/\ io'.cache # io.cache =>
             \E t \in Readers :
                /\ io.thr[t].pc = "remote"
                /\ ~io.thr[t].res.err /\ io.thr[t].res.status >= 0
                /\ io'.thr[t].pc = "idle"
                /\ io'.last.thread = t /\ io'.last.err = NilError
                /\ io'.cache = io.thr[t].res.state
       /\ \A t \in Readers, out \in ReadOutcomes :
             (ReadRemote(t, out) /\ (out.err \/ out.status < 0)) =>
                /\ io'.cache = io.cache
                /\ io'.thr[t].pc = "idle"
                /\ io'.last.err # NilError
       /\ \A t \in Readers : ReadUninitialized(t) => io'.cache = io.cache
       /\ \A t \in Readers, enc \in BOOLEAN, out \in WriteOutcomes :
             Write(t, enc, out) => io'.cache = io.cache
      ]_vars

\* A Write returned without an error, after the last remote read, on an item
\* whose cache an earlier Read had filled.
C17_Witness ==
    /\ io.cache # ZeroCache
    /\ io.last.op = "Write"
    /\ io.last.err = NilError
    /\ io.clock = MaxReads

\* C18: a Read whose remote call returns a state with a non-negative status
\* goes on to the store, returns exactly that state with a nil error, and
\* GetValue, GetQuality and GetTimestamp then return its three parts.
C18_ReadReturnsAndCachesTheState ==
    [][/\ \A t \in Readers, out \in ReadOutcomes :
             (ReadRemote(t, out) /\ ~out.err /\ out.status >= 0) =>
                /\ io'.thr[t].pc = "remote"
                /\ io'.thr[t].res.state.value = out.value
                /\ io'.thr[t].res.state.quality = out.quality
                /\ io'.last = io.last
       /\ \A t \in Readers :
             ReadStore(t) =>
                LET state == io.thr[t].res.state IN
                /\ io'.last.op = "Read" /\ io'.last.thread = t
                /\ io'.last.err = NilError
                /\ io'.last.ret = state
                /\ GetValue' = state.value
                /\ GetQuality' = state.quality
                /\ GetTimestamp' = state.timestamp
      ]_vars

\* A Read returned a state that differs from the zero cache in every part.
C18_Witness ==
    /\ io.last.op = "Read"
    /\ io.last.err = NilError
    /\ io.last.ret.value = 8 /\ io.last.ret.quality = 192
    /\ io.last.ret.timestamp = 2
    /\ io.cache = io.last.ret

\* C19: once no Read is in progress, the cache holds the state the latest
\* successful remote read returned.
C19_CacheHoldsLatestRemoteRead ==
    ((\A t \in Readers : io.thr[t].pc = "idle") /\ io.lastRemote # NoRead)
       => io.cache = io.lastRemote

\* C20: the class id Connect gets is that of the first of v2, v1, registry
\* that answers without error, with a nil error, and no tier after it is
\* asked; when only the registry answers, Connect goes on with the registry's
\* class id and returns no error of the two class lists.
C20_FirstTierThatSucceedsWins ==
    LET t == conn.tiers
        c == conn.call
    IN  c # NoConnect =>
          /\ t["v2"].ok =>
                /\ c.got.clsid = t["v2"].clsid /\ c.got.err = NilError
                /\ c.got.consulted = <<"v2">>
          /\ (~t["v2"].ok /\ t["v1"].ok) =>
                /\ c.got.clsid = t["v1"].clsid /\ c.got.err = NilError
                /\ c.got.consulted = <<"v2", "v1">>
          /\ (~t["v2"].ok /\ ~t["v1"].ok /\ t["reg"].ok) =>
                /\ c.got.clsid = t["reg"].clsid /\ c.got.err = NilError
                /\ c.got.consulted = <<"v2", "v1", "reg">>
                /\ c.err = NilError => (c.outcome = "connected"
                                        /\ c.made = t["reg"].clsid)
                /\ c.err # NilError => c.err.wrapped # "get clsid"
          /\ (c.got.err = NilError /\ c.err = NilError) =>
                c.made = c.got.clsid

\* Both class lists failed, the registry answered, and Connect succeeded.
C20_Witness ==
    /\ conn.call.outcome = "connected"
    /\ ~conn.tiers["v2"].ok /\ ~conn.tiers["v1"].ok
    /\ conn.call.made = conn.tiers["reg"].clsid
    /\ conn.call.got.consulted = <<"v2", "v1", "reg">>

\* C21: when the v2 list, the v1 list and the registry all fail, getClsID
\* returns no class id and an error joined from three errors, one per tier
\* in the order asked, each holding the text of the error its tier returned;
\* Connect returns that error wrapped and makes no server object.
C21_AllTiersFailJoinsCauses ==
    LET t == conn.tiers
        c == conn.call
    IN  (c # NoConnect /\ \A n \in TierNames : ~t[n].ok) =>
          /\ c.got.clsid = NilClsID
          /\ c.got.err # NilError
          /\ Len(c.got.err.joined) = Len(TierOrder)
          /\ \A i \in 1..Len(TierOrder) :
                /\ c.got.err.joined[i].tier = TierOrder[i]
                /\ c.got.err.joined[i].text = t[TierOrder[i]].cause
                /\ c.got.err.joined[i].text \in Causes
          /\ c.outcome = "error" /\ c.made = NilClsID
          /\ c.err = [wrapped |-> "get clsid", cause |-> c.got.err]

\* Connect returned after three tiers failed with errors that are not all
\* the same.
C21_Witness ==
    /\ conn.call # NoConnect
    /\ \A n \in TierNames : ~conn.tiers[n].ok
    /\ conn.tiers["v2"].cause # conn.tiers["reg"].cause
    /\ conn.call.outcome = "error"

\* C22: a Connect that fails while querying the common or the item-property
\* interface returns no server and has released each reference it acquired
\* once, and nothing else.
C22_FailedConnectReleasesAcquired ==
    LET c == conn.call IN
    (c.outcome = "error" /\ c.err.wrapped \in {"common", "properties"}) =>
       /\ ~c.session
       /\ "server" \in c.acquired
       /\ (c.err.wrapped = "properties") <=> ("common" \in c.acquired)
       /\ "properties" \notin c.acquired
       /\ \A r \in RefNames :
             c.released[r] = IF r \in c.acquired THEN 1 ELSE 0

\* Connect failed at the item-property interface, holding two references.
C22_Witness ==
    /\ conn.call.outcome = "error"
    /\ conn.call.err.wrapped = "properties"
    /\ conn.call.acquired = {"server", "common"}
    /\ conn.call.released["server"] = 1

C24_NilReceiverUsageErrorOrZero ==
    (srv.last # NoNilCall /\ srv.state \in {"nil", "zero"}) =>
       /\ ~srv.last.fault
       /\ ~srv.last.remote
       /\ srv.last.kind = "fallible" => srv.last.result = "error"
       /\ srv.last.kind = "accessor" => srv.last.result = "zero"
       /\ srv.last.kind = "void" => srv.last.result = "nothing"


\* C25: in one call of OPCGroup.Release every item of the group and its
\* item-management interface are released before the interfaces of the
\* group's provider, and in one call of OPCServer.Disconnect every release
\* made for a group comes before the releases of the session's provider;
\* Disconnect releases, once each, every item and every provider interface of
\* every group built by NewOPCGroup.
ItemWhats == {"item", "itemMgt"}

ProviderWhats == {ProviderRefs[k] : k \in 1..Len(ProviderRefs)}

SessionWhats == {SessionRefs[k] : k \in 1..Len(SessionRefs)}

LogCount(e) == Cardinality({n \in 1..Len(srv.log) : srv.log[n] = e})

C25_TeardownFollowsDependencyOrder ==
    /\ \A m, n \in 1..Len(srv.log) :
        /\ (/\ srv.log[m].owner = srv.log[n].owner
            /\ srv.log[m].what \in ItemWhats
            /\ srv.log[n].what \in ProviderWhats) => m < n
        /\ (/\ srv.log[m].owner # Session
            /\ srv.log[n].owner = Session
            /\ srv.log[n].what \in SessionWhats) => m < n
    /\ (srv.call.op = "Disconnect" /\ srv.session.groups) =>
        \A i \in 1..Len(srv.groups) :
            srv.groups[i].groupProvider =>
                /\ \A k \in 1..srv.groups[i].nItems : LogCount(Released(i, "item", k)) = 1
                /\ LogCount(Released(i, "itemMgt", 0)) = 1
                /\ \A w \in ProviderWhats : LogCount(Released(i, w, 0)) = 1
                /\ \A w \in SessionWhats : LogCount(Released(Session, w, 0)) = 1
    /\ srv.call.op = "Release" =>
        LET grp == srv.groups[srv.call.group] IN
            grp.groupProvider =>
                /\ \A k \in 1..grp.nItems :
                    LogCount(Released(srv.call.group, "item", k)) = 1
                /\ \A w \in ProviderWhats : LogCount(Released(srv.call.group, w, 0)) = 1

C25_Witness ==
    /\ srv.call.op = "Disconnect"
    /\ Len(srv.groups) = MaxGroups
    /\ \A i \in 1..Len(srv.groups) :
        /\ srv.groups[i].nItems = MaxOwnedItems
        /\ \E n \in 1..Len(srv.log) : srv.log[n] = Released(i, "container", 0)
    /\ srv.log[Len(srv.log)] = Released(Session, "iServer", 0)


\* C26: an advise attempt that failed (container query, FindConnectionPoint or
\* Advise) has released every reference it acquired exactly once, has started
\* no dispatch loop, and has left the group's subscription fields unset.
C26_FailedAdviseReleasesAcquired ==
    \A n \in 1..g.nAtt :
        g.att[n].adv = 0 =>
            /\ g.att[n].conRel = g.att[n].conAcq
            /\ g.att[n].ptRel = g.att[n].ptAcq
            /\ g.att[n].pc = "none"
            /\ g.event # n /\ g.point # n /\ g.container # n /\ g.cancel # n


\* C27: when SyncWrite or AsyncWrite returns, by an encoding failure, by a
\* failure of the remote write or with success, the variant of every value
\* that was encoded has been cleared exactly once and nothing else that holds
\* a value has been cleared.
C27_EncodedValuesClearedOnce ==
    io.op \in {"SyncWrite", "AsyncWrite"} =>
        /\ Len(io.clears) = Len(io.serverHandles)
        /\ \A i \in 1..Len(io.clears) :
            io.clears[i] = (IF i <= io.built THEN 1 ELSE 0)
        /\ io.err = "encode" => io.built < Len(io.serverHandles) /\ ~io.remoteCalled
        /\ io.err # "encode" => io.built = Len(io.serverHandles) /\ io.remoteCalled

C27_Witness ==
    /\ io.op = "AsyncWrite"
    /\ io.err = "encode"
    /\ io.built = MaxHandles - 1
    /\ io.clears[1] = 1
    /\ io.emptyClears = 1


\* C28: every data-change, read-complete and write-complete event in a
\* subscriber's queue has a master error that is not nil exactly when the raw
\* master status is negative, and as many item errors as the raw data has
\* statuses, not nil exactly where the raw status is negative.
C28_EventErrorsMirrorRawStatuses ==
    \A n \in 1..Len(chan.list) :
        LET data == chan.list[n]
            cbData == data.from
        IN  /\ data.kind = cbData.kind
            /\ (data.MasterErr # NilError) <=> (cbData.MasterErr < 0)
            /\ Len(data.Errors) = Len(cbData.Errors)
            /\ \A i \in 1..Len(cbData.Errors) :
                (data.Errors[i] # NilError) <=> (cbData.Errors[i] < 0)

C28_Witness ==
    /\ chan.list # <<>>
    /\ Head(chan.list).kind = "write"
    /\ Head(chan.list).from.MasterErr = 0
    /\ Head(chan.list).from.Errors = <<-1, 1>>
    /\ Head(chan.list).Errors = <<getError(-1), NilError>>
    /\ Head(chan.list).MasterErr = NilError


\* C29: however the calls of RegisterServerShutDown interleave, at most one
\* of them advises the shutdown connection point with success, and a call
\* that finds the subscription made only adds its receiver.
C29_ShutdownAdvisedAtMostOnce ==
    Cardinality({n \in ShutAttempts : srv.s.att[n].adv = 1}) <= 1


\* C30: while the counter has not gone through all its values, the items
\* AddItems retained carry client handles that differ from one another, also
\* when the increments of Validate fall between those of AddItems.
C30_HandlesDifferBeforeWrap ==
    its.minted <= HandleModulus =>
        \A i, j \in 1..Len(its.items) :
            i # j => its.items[i].clientHandle # its.items[j].clientHandle

\* C30 as stated: the retained items carry client handles that differ from
\* one another, whatever the number of handles minted.
C30_HandlesDiffer ==
    \A i, j \in 1..Len(its.items) :
        i # j => its.items[i].clientHandle # its.items[j].clientHandle

C30_Witness ==
    /\ its.minted <= HandleModulus
    /\ Len(its.items) >= 2
    /\ its.items[1].call = its.items[2].call
    /\ its.items[2].clientHandle = its.items[1].clientHandle + 2


\* C31: while the remote AddItems or RemoveItems call of one goroutine is in
\* progress the collection's lock is not held, and no GetCount, Item or
\* GetOPCItem of another goroutine is waiting for it.
C31_NoLockAcrossRemoteCall ==
    its.w.pc = "remote" => (~its.lock /\ its.r.pc # "waiting")


\* C32: the append of a Register* call that returns without error adds its
\* queue to the list as the list is at that moment, so that no queue another
\* Register* call of the same kind has added meanwhile is lost.
C32_RegistrationNeverLost ==
    [][\A t \in Threads :
          AppendWrite(t) =>
              LET k == ChanKind(g.thr[t].ch)
              IN  g'.lists[k] = Append(g.lists[k], g.thr[t].ch)]_vars


\* C33: the context of a dispatch loop becomes cancelled in a step of
\* OPCGroup.Release and in no other step, and once cancelled it stays so: a
\* second call of the cancel function signals nothing.
C33_CancelledOnceByRelease ==
    [][\A n \in Attempts :
          g'.att[n].cancelled # g.att[n].cancelled =>
              /\ ~g.att[n].cancelled
              /\ g.cancel = n
              /\ \E t \in DOMAIN g.thr : ReleaseCancel(t)]_vars

C33_Witness ==
    \E n \in Attempts :
        /\ g.att[n].cancelled
        /\ g.att[n].cancelCalls = 2
        /\ g.att[n].pc = "done"


\* C34: once a Release that cancelled the loop of a subscription has
\* returned, that loop puts no event on a subscriber queue.
C34_NoDeliveryAfterRelease ==
    [][\A n \in Attempts :
          (/\ g.att[n].cancelCalls > 0
           /\ \A t \in DOMAIN g.thr : g.thr[t].pc \notin {"rel2", "rel3"}
           /\ (fireDataChange(n) \/ fireCancelComplete(n) \/ resumeCancelSend(n)))
              => chan' = chan]_vars


\* C35: on a group Release has been called on, no Register* call advises the
\* event source or starts a dispatch loop.
C35_NoAdviseAfterRelease ==
    [][g.nRelease > 0 => /\ AdviseCalls' = AdviseCalls
                         /\ LoopsStarted' = LoopsStarted]_vars


\* C36: when one Register* call and one Release that ran beside it have both
\* returned, every subscription advised has been unadvised, every connection
\* point and container acquired has been released, and every dispatch loop
\* started has had its context cancelled.
C36_NothingLeftAfterConcurrentRelease ==
    (/\ g.nRegister = 1 /\ g.nRelease = 1
     /\ \A t \in DOMAIN g.thr : g.thr[t].pc = "idle")
        => \A n \in Attempts :
              /\ g.att[n].unadv = g.att[n].adv
              /\ g.att[n].ptRel = g.att[n].ptAcq
              /\ g.att[n].conRel = g.att[n].conAcq
              /\ g.att[n].pc # "none" => g.att[n].cancelled

\* C37: the events a subscriber queue receives are a subsequence of the raw
\* events of its kind in the order the loop dequeued them, none of them twice.
\* A fan-out sends one dequeued event down the list; when it goes on after a
\* waiting send, the queues at the positions before the waiting one have been
\* given that event already, so the step may give it to none of them again.
C37_EventGivenOncePerQueue ==
    [][\A n \in Attempts :
          resumeCancelSend(n) =>
             \A i \in 1..(g.att[n].idx - 1) :
                chan'[g.att[n].snap[i]] = chan[g.att[n].snap[i]]]_vars

\* C38: an AddItems call whose batch call fails at call level returns the
\* error with no item list and no error list, and leaves the collection with
\* the items it had, in the order it had them.
C38_FailedAddItemsKeepsMembership ==
    [][\A tags \in TagLists, errs \in StatusLists :
         AddItems(tags, TRUE, errs) =>
            /\ its'.items = its.items
            /\ its'.last.outcome = "err"
            /\ its'.last.opcItems = <<>>
            /\ its'.last.resultErrors = <<>>]_vars

\* The batch call has failed on a collection that held items.
C38_Witness ==
    /\ its.last.outcome = "err"
    /\ its.last.tags # <<>>
    /\ its.items # <<>>

\* C39: a SyncWrite or AsyncWrite call in which com.NewVariant rejects one of
\* the values returns the encoding error and nothing else, and the remote
\* write is not issued.  The call that met a rejected value is the one that
\* built fewer variants than it has handles.
C39_EncodeErrorStopsTheWrite ==
    (io.op \in {"SyncWrite", "AsyncWrite"} /\ io.built < Len(io.serverHandles)) =>
        /\ io.err = "encode"
        /\ ~io.remoteCalled
        /\ ~io.remoteFailed
        /\ io.errList = <<>>
        /\ io.resultErrs = <<>>

\* A SyncWrite has returned the encoding error of its last value, the values
\* before it encoded.
C39_Witness ==
    /\ io.op = "SyncWrite"
    /\ io.err = "encode"
    /\ io.built = Len(io.serverHandles) - 1
    /\ io.built > 0

\* C40: MoveToRoot returns whatever the provider answers, also when the
\* provider reports success for a move up from the root, and so MoveTo
\* returns: a call of either that has started comes to its end.
C40_MoveToRootTerminates == (srv.pc # "idle") ~> (srv.pc = "idle")

====
